---- MODULE Spec2Model ----
(***************************************************************************)
(* md5rs: the decode -> detect -> export pipeline of src/src/main.rs with  *)
(* its checkpoint file and the resume-from-checkpoint reconciler.          *)
(*                                                                         *)
(* One behaviour is a sequence of runs of the program over one folder.     *)
(* The first run is a fresh run; a run that is killed or that has ended    *)
(* may be followed by a run started with --resume-from on the result file  *)
(* the earlier run left in the folder.  The only state that survives from  *)
(* one run to the next is the file on disk.                                *)
(***************************************************************************)
EXTENDS Integers, Sequences, FiniteSets, Bags, TLC

(***************************************************************************)
(* Bounds of the model and constants of the program.                       *)
(***************************************************************************)
\* --checkpoint N: a checkpoint is written at every N-th record.
Checkpoint == 2
\* the largest number of frames the transcoder emits for the video.
MaxVideoFrames == 2
\* the number of runs in one behaviour (a first run and resumed runs).
MaxRuns == 2
\* the number of frames of a video that was deleted from the folder after an earlier
\* run had written its result file.
StaleLen == 2
\* --batch default (B).
BatchSize == 2
\* --workers default: detector workers of the one default device (W).
Workers == 2
\* the fixed pool of export workers.
NumExporters == 4

Detectors == 1 .. Workers
Exporters == 1 .. NumExporters

\* Option<T>: None is the empty tuple, Some(v) the one-element tuple.
None == <<>>
Some(v) == <<v>>
IsSome(o) == o # None
Unwrap(o) == o[1]
UnwrapOr(o, d) == IF o = None THEN d ELSE o[1]

Min(a, b) == IF a <= b THEN a ELSE b
Max(a, b) == IF a >= b THEN a ELSE b

RECURSIVE SeqToBag(_)
SeqToBag(s) == IF s = <<>> THEN EmptyBag ELSE SetToBag({Head(s)}) (+) SeqToBag(Tail(s))

Count(s, P(_)) == Cardinality({i \in 1 .. Len(s) : P(s[i])})

(***************************************************************************)
(* The folder.  A path is its file name: a leading dot, a stem and an      *)
(* extension.  What the external decoders make of a file is part of the    *)
(* folder: -1 for a decode error, otherwise the number of frames emitted   *)
(* (1 for an image that decodes).                                          *)
(***************************************************************************)
ImgPath(h) == [hidden |-> h, stem |-> "a", ext |-> "jpg"]
VidPath == [hidden |-> FALSE, stem |-> "v", ext |-> "mp4"]
GonePath == [hidden |-> FALSE, stem |-> "z", ext |-> "mp4"]
OtherImgPath == [hidden |-> FALSE, stem |-> "b", ext |-> "jpg"]

DecodeErr == 0 - 1

Folders ==
    { [p \in {ip, VidPath} |-> IF p = VidPath THEN vn ELSE im] :
        ip \in {ImgPath(FALSE), ImgPath(TRUE)},
        im \in {DecodeErr, 1},
        vn \in DecodeErr .. MaxVideoFrames }

\* media.rs is_hidden_file: the file name starts with a dot.
is_hidden_file(p) == p.hidden

\* utils.rs is_video_photo: the lower-cased extension is a known one.
is_video_photo(p) == p.ext \in {"mp4", "avi", "mkv", "mov", "jpg", "jpeg", "png"}

\* walkdir's sort_by_file_name: dot-files first, then by stem.
StemRank(s) == CASE s = "a" -> 1 [] s = "b" -> 2 [] s = "v" -> 3 [] s = "z" -> 4 [] OTHER -> 5
NameLess(p, q) ==
    \/ p.hidden /\ ~q.hidden
    \/ p.hidden = q.hidden /\ StemRank(p.stem) < StemRank(q.stem)

\* utils.rs index_files_and_folders: the root directory bumps folder_id to 1;
\* file_id counts the accepted files that precede in the sorted walk.
index_files_and_folders(dir) ==
    { [folder_id |-> 1,
       file_id |-> Cardinality({q \in DOMAIN dir : is_video_photo(q) /\ NameLess(q, p)}),
       file_path |-> p] : p \in {q \in DOMAIN dir : is_video_photo(q)} }

\* utils.rs sample_evenly: the indexes sampled from a list of length len.
sample_evenly(len, sample_size) ==
    IF sample_size = 0 \/ len = 0 THEN <<>>
    ELSE [i \in 1 .. sample_size |-> ((i - 1) * len) \div sample_size]

(***************************************************************************)
(* The external decoders.  For an image: how the open and the two decoders *)
(* (image, then jpeg_decoder) fare.  For a video: the events of the        *)
(* transcoder in order, each an output frame, an error line of the         *)
(* whitelist ("soft") or another error line ("hard").                      *)
(***************************************************************************)
\* the largest number of events the transcoder reports for the video.
MaxEvents == 3

ImageDecodings == {<<"ok">>, <<"err", "ok">>, <<"err", "err">>, <<"io">>}

RECURSIVE EventSeqs(_)
EventSeqs(n) ==
    IF n = 0 THEN {<<>>}
    ELSE EventSeqs(n - 1)
         \cup {Append(q, e) : q \in {x \in EventSeqs(n - 1) : Len(x) = n - 1},
                               e \in {"frame", "soft", "hard"}}

\* the transcoder is not read beyond its first hard error.
VideoDecodings ==
    {q \in EventSeqs(MaxEvents) :
        /\ Count(q, LAMBDA e : e = "frame") <= MaxVideoFrames
        /\ \A i \in 1 .. Len(q) - 1 : q[i] # "hard"}

\* media.rs decode_image: the image crate, then jpeg_decoder; an open error is final.
decode_image(tries) ==
    IF tries[1] = "ok" THEN 1
    ELSE IF tries[1] = "io" THEN DecodeErr
    ELSE IF tries[2] = "ok" THEN 1 ELSE DecodeErr

\* A decode_video with no whitelist: any error line ends the decoding.
RECURSIVE decode_video_strict(_, _)
decode_video_strict(events, n) ==
    IF events = <<>> THEN n
    ELSE IF Head(events) \in {"hard", "soft"} THEN DecodeErr
    ELSE decode_video_strict(Tail(events), n + 1)

\* media.rs decode_video: frames are collected, whitelisted error lines are skipped,
\* any other error line ends the decoding with an error.
RECURSIVE decode_video(_, _)
decode_video(events, n) ==
    IF events = <<>> THEN n
    ELSE IF Head(events) = "hard" THEN DecodeErr
    ELSE decode_video(Tail(events), IF Head(events) = "frame" THEN n + 1 ELSE n)

\* what the decoders make of a file.
Outcome(p, d) == IF p.ext = "jpg" THEN decode_image(d) ELSE decode_video(d, 0)

\* the plain decoder reports behind an outcome.
Plain(p, outcome) ==
    IF p.ext = "jpg" THEN (IF outcome = DecodeErr THEN <<"err", "err">> ELSE <<"ok">>)
    ELSE IF outcome = DecodeErr THEN <<"hard">> ELSE [i \in 1 .. outcome |-> "frame"]

(***************************************************************************)
(* Frames, error markers and records.                                      *)
(***************************************************************************)
Frame(file, idx, total) ==
    [kind |-> "Frame", file |-> file, iframe_index |-> idx, total_frames |-> total]
ErrFile(file) == [kind |-> "ErrFile", file |-> file, error |-> "decode"]

\* media.rs process_image: one Frame, or an ErrFile when both decoders fail.
process_image(file, outcome) ==
    IF outcome = DecodeErr THEN <<ErrFile(file)>> ELSE <<Frame(file, 0, 1)>>

\* media.rs handle_ffmpeg_output: the sampled frames, or one ErrFile.
handle_ffmpeg_output(file, outcome, max_frames) ==
    IF outcome = DecodeErr THEN <<ErrFile(file)>>
    ELSE LET idx == sample_evenly(outcome, UnwrapOr(max_frames, outcome))
         IN  [i \in 1 .. Len(idx) |-> Frame(file, idx[i], Len(idx))]

\* media.rs media_worker: what one call sends into the frames channel.
media_worker(file, outcome, max_frames) ==
    IF is_hidden_file(file.file_path) THEN <<>>
    ELSE IF file.file_path.ext \in {"jpg", "jpeg", "png"} THEN process_image(file, outcome)
    ELSE IF file.file_path.ext \in {"mp4", "avi", "mkv", "mov"}
         THEN handle_ffmpeg_output(file, outcome, max_frames)
    ELSE <<>>

\* detect.rs process_batch: the record of one inferred frame.
FrameRecord(fr) ==
    [file |-> fr.file, shoot_time |-> Some("t0"), frame_index |-> fr.iframe_index,
     total_frames |-> fr.total_frames, bboxes |-> Some(<<>>),
     label |-> Some("Blank"), error |-> None]

\* detect.rs process_frames: the record sent for an ErrFile.
ErrRecord(ef) ==
    [file |-> ef.file, shoot_time |-> None, frame_index |-> 0, total_frames |-> 1,
     bboxes |-> Some(<<>>), label |-> None, error |-> Some(ef.error)]

process_batch(frames) == [i \in 1 .. Len(frames) |-> FrameRecord(frames[i])]


(***************************************************************************)
(* The result file.  Its content is a sequence of tokens: for JSON an      *)
(* opening bracket, one object per record and a closing bracket; for CSV   *)
(* the header line and one row per record.  A JSON value is null, a string *)
(* or an array; a CSV field holds plain text.                              *)
(***************************************************************************)
JNull == <<"null">>
JStr(s) == <<"str", s>>
JArr(a) == <<"arr", a>>
OptStr(o) == IF o = None THEN JNull ELSE JStr(Unwrap(o))
OptArr(o) == IF o = None THEN JNull ELSE JArr(Unwrap(o))
FromJson(j) == IF j = JNull THEN None ELSE Some(j[2])

LBracket == [t |-> "["]
RBracket == [t |-> "]"]
Header == [t |-> "hdr"]

\* serde_json::to_string_pretty of one ExportFrame.
JsonObject(r) ==
    [t |-> "obj", file |-> r.file, shoot_time |-> OptStr(r.shoot_time),
     frame_index |-> r.frame_index, total_frames |-> r.total_frames,
     bboxes |-> OptArr(r.bboxes), label |-> OptStr(r.label), error |-> OptStr(r.error)]

\* serde_json::from_str of one object.
FromJsonObject(o) ==
    [file |-> o.file, shoot_time |-> FromJson(o.shoot_time),
     frame_index |-> o.frame_index, total_frames |-> o.total_frames,
     bboxes |-> FromJson(o.bboxes), label |-> FromJson(o.label),
     error |-> FromJson(o.error)]

\* export.rs write_csv: the line of one ExportFrame; an absent field is the text null.
CsvRow(r) ==
    [t |-> "row", folder_id |-> r.file.folder_id, file_id |-> r.file.file_id,
     file_path |-> r.file.file_path, shoot_time |-> UnwrapOr(r.shoot_time, "null"),
     frame_index |-> r.frame_index, total_frames |-> r.total_frames,
     bboxes |-> OptArr(r.bboxes), label |-> UnwrapOr(r.label, "null"),
     error |-> UnwrapOr(r.error, "null")]

\* export.rs parse_export_csv: the ExportFrame of one line; every text field is Some.
FromCsvRow(w) ==
    [file |-> [folder_id |-> w.folder_id, file_id |-> w.file_id, file_path |-> w.file_path],
     shoot_time |-> Some(w.shoot_time), frame_index |-> w.frame_index,
     total_frames |-> w.total_frames, bboxes |-> FromJson(w.bboxes),
     label |-> Some(w.label), error |-> Some(w.error)]

\* export.rs write_json / write_csv: the bytes written for a buffer.
write_json(data) ==
    <<LBracket>> \o [i \in 1 .. Len(data) |-> JsonObject(data[i])] \o <<RBracket>>
write_csv(data) == <<Header>> \o [i \in 1 .. Len(data) |-> CsvRow(data[i])]
Serialise(fmt, data) == IF fmt = "json" THEN write_json(data) ELSE write_csv(data)

Middle(c) == SubSeq(c, 2, Len(c) - 1)

\* serde_json::from_str::<Vec<ExportFrame>>: an array of objects and nothing else.
JsonParses(c) ==
    /\ Len(c) >= 2
    /\ c[1].t = "[" /\ c[Len(c)].t = "]"
    /\ \A i \in 2 .. Len(c) - 1 : c[i].t = "obj"
from_json(c) == [i \in 1 .. Len(c) - 2 |-> FromJsonObject(c[i + 1])]

\* export.rs parse_export_csv: the first line is taken as the header whatever it
\* holds; every further line must be a record line.
CsvParses(c) == \A i \in 2 .. Len(c) : c[i].t = "row"
parse_export_csv(c) == [i \in 1 .. Len(c) - 1 |-> FromCsvRow(c[i + 1])]

Parses(fmt, c) == IF fmt = "json" THEN JsonParses(c) ELSE CsvParses(c)
ParseFile(fmt, c) == IF fmt = "json" THEN from_json(c) ELSE parse_export_csv(c)

\* the record lines of a file, whether or not the file parses.
Lines(c) == SelectSeq(c, LAMBDA k : k.t \in {"obj", "row"})
LineFile(k) ==
    IF k.t = "obj" THEN k.file
    ELSE [folder_id |-> k.folder_id, file_id |-> k.file_id, file_path |-> k.file_path]
LineIsError(k) == IF k.t = "obj" THEN k.error # JNull ELSE k.error # "null"

\* A write to an open file at offset pos, which starts at 0: the file is opened
\* with write and create and without truncate, so what lies beyond stays.
Overwrite(c, pos, tok) == IF pos < Len(c) THEN [c EXCEPT ![pos + 1] = tok] ELSE Append(c, tok)

\* OpenOptions::new().write(true).create(true).open(path)
OpenCreate(d) == IF d = None THEN Some(<<>>) ELSE d

RowOf(fmt, r) == IF fmt = "json" THEN JsonObject(r) ELSE CsvRow(r)

\* the record a detector worker sends for an item of the frames channel.
RecordOf(item) == IF item.kind = "Frame" THEN FrameRecord(item) ELSE ErrRecord(item)

\* the records of a run that nothing interrupts, file by file in walk order.
RECURSIVE RecordsFrom(_, _, _)
RecordsFrom(dir, mf, id) ==
    LET all == index_files_and_folders(dir)
    IN  IF id >= Cardinality(all) THEN <<>>
        ELSE LET f == CHOOSE x \in all : x.file_id = id
                 out == media_worker(f, dir[f.file_path], mf)
             IN  [k \in 1 .. Len(out) |-> RecordOf(out[k])] \o RecordsFrom(dir, mf, id + 1)
Uninterrupted(dir, mf) == RecordsFrom(dir, mf, 0)

\* The result file of an earlier run over the folder, made when the folder still
\* held the video z.mp4 of StaleLen frames, which has been deleted since.
GoneFile(dir) ==
    [folder_id |-> 1, file_id |-> Cardinality(index_files_and_folders(dir)),
     file_path |-> GonePath]
\* A file that is no result file: neither a JSON array of records nor lines of CSV.
BadFile == <<[t |-> "junk"], [t |-> "junk"]>>
StaleFile(fmt, dir, mf) ==
    Serialise(fmt, [k \in 1 .. StaleLen |-> FrameRecord(Frame(GoneFile(dir), k - 1, StaleLen))]
                   \o Uninterrupted(dir, mf))

(***************************************************************************)
(* main.rs resume_from_checkpoint: the running count of records per file   *)
(* and the total_frames of the file's first record; a file is removed from *)
(* the work set at the record at which the two are equal.                  *)
(***************************************************************************)
Bump(m, k, v) == [x \in DOMAIN m \cup {k} |-> IF x = k THEN v ELSE m[x]]

RECURSIVE reconcile(_, _, _, _)
reconcile(frs, cnt, tot, all_files) ==
    IF frs = <<>> THEN all_files
    ELSE LET f == Head(frs).file
             c == (IF f \in DOMAIN cnt THEN cnt[f] ELSE 0) + 1
             t == IF f \in DOMAIN tot THEN tot[f] ELSE Head(frs).total_frames
         IN  reconcile(Tail(frs), Bump(cnt, f, c), Bump(tot, f, t),
                       IF t = c THEN all_files \ {f} ELSE all_files)

resume_from_checkpoint(frs, all_files) ==
    reconcile(frs, [x \in {} |-> 0], [x \in {} |-> 0], all_files)


(***************************************************************************)
(* The state.                                                              *)
(***************************************************************************)
VARIABLES
    folder,             \* the files of the folder and what the decoders make of them
    max_frames,         \* --max-frames
    format,             \* --export
    batch,              \* --batch
    workers,            \* --workers: the number of detector workers
    checkpoint,         \* --checkpoint
    checkpoint_path,    \* what the path given with --resume-from names
    decoders,           \* per file: what the external decoders report for it
    pf,                 \* one process_frames loop under a clock (the timed model)
    pp,                 \* the post-processing of one frame's rows
    call,               \* one call of a function on its own: its input and its result
    run,                \* the number of this run
    resume_from,        \* whether this run was started with --resume-from
    ctl,                \* where main() is
    file_paths,         \* the work set
    export_data,        \* the result buffer
    array_q,            \* the frames channel
    array_q_s,          \* main's sender of the frames channel is alive
    export_q,           \* the result channel
    export_q_s,         \* main's sender of the result channel is alive
    checkpoint_counter,
    counter_lock,       \* the exporter holding the counter mutex, or 0
    data_lock,          \* the exporter holding the buffer mutex, or 0
    media,              \* per file: where its media_worker call is, what it has left to send
    dpc,                \* per detector worker: running or done
    frames,             \* per detector worker: its pending batch
    epc,                \* per exporter: where it is
    held,               \* per exporter: the record it received
    disk,               \* the result file: None when absent, else Some(content)
    wr,                 \* the write in progress: who writes, the bytes, the offset
    inferd,             \* history: the frames passed to inference in this run
    sent,               \* history: the records sent into the result channel in this run
    residual,           \* history: the largest batch a worker flushed at channel closure
    replayed,           \* history: the records this run parsed from its checkpoint
    snaps,              \* history: every serialised buffer that was handed to a write
    prior               \* history: how the run before this one ended, and its file

args ==
    <<folder, max_frames, format, batch, workers, checkpoint, checkpoint_path, decoders,
      pf, pp, call>>
chans == <<array_q, array_q_s, export_q, export_q_s>>
locks == <<checkpoint_counter, counter_lock, data_lock>>
dets == <<dpc, frames, inferd, sent, residual>>
exps == <<epc, held>>
fs == <<disk, wr, snaps>>
runv == <<run, resume_from, prior, replayed, file_paths>>
vars == <<args, runv, ctl, export_data, chans, locks, media, dets, exps, fs>>

Main == NumExporters + 1
NoWrite == [who |-> 0, snap |-> <<>>, pos |-> 0]

\* main.rs: bounded(args.batch * args.workers.iter().sum() * 2)
Capacity == batch * workers * 2

AllFiles == index_files_and_folders(folder)

NoMedia == [f \in index_files_and_folders(folder) |-> [pc |-> "none", todo |-> <<>>]]
NoBatch == [d \in Detectors |-> <<>>]
NoRecord == [e \in Exporters |-> None]

\* the memory of a process that has just been started.
\* the timed model of process_frames at rest: the pipeline steps leave it alone.
NoLoop == [pc |-> "off"]
\* the model of post-processing at rest.
NoPost == [pc |-> "off"]
\* no function is called on its own.
NoCall == [op |-> "none"]

Idle ==
    /\ file_paths = {}
    /\ export_data = <<>>
    /\ array_q = <<>> /\ array_q_s = TRUE
    /\ export_q = <<>> /\ export_q_s = TRUE
    /\ checkpoint_counter = 0 /\ counter_lock = 0 /\ data_lock = 0
    /\ media = NoMedia
    /\ dpc = [d \in Detectors |-> "none"]
    /\ frames = NoBatch
    /\ epc = [e \in Exporters |-> "none"]
    /\ held = NoRecord
    /\ wr = NoWrite
    /\ inferd = EmptyBag /\ sent = EmptyBag /\ residual = 0
    /\ replayed = <<>>

Restarted ==
    /\ file_paths' = {}
    /\ export_data' = <<>>
    /\ array_q' = <<>> /\ array_q_s' = TRUE
    /\ export_q' = <<>> /\ export_q_s' = TRUE
    /\ checkpoint_counter' = 0 /\ counter_lock' = 0 /\ data_lock' = 0
    /\ media' = NoMedia
    /\ dpc' = [d \in Detectors |-> "none"]
    /\ frames' = NoBatch
    /\ epc' = [e \in Exporters |-> "none"]
    /\ held' = NoRecord
    /\ wr' = NoWrite
    /\ inferd' = EmptyBag /\ sent' = EmptyBag /\ residual' = 0
    /\ replayed' = <<>>

\* what the program may be started on: the result file of the folder is absent, or
\* was left there by an earlier run, or is no result file at all; --resume-from, when
\* given, names the result file, a directory, or a file with another or no extension.
Starts(fmt, dir, mf) ==
    {[disk |-> None, resume_from |-> r, checkpoint_path |-> "result"] : r \in BOOLEAN}
    \cup {[disk |-> Some(StaleFile(fmt, dir, mf)), resume_from |-> FALSE,
            checkpoint_path |-> "result"]}
    \cup {[disk |-> Some(StaleFile(fmt, dir, mf)), resume_from |-> TRUE,
            checkpoint_path |-> k] : k \in {"result", "dir", "txt", "noext"}}
    \cup {[disk |-> Some(BadFile), resume_from |-> TRUE, checkpoint_path |-> "result"]}

Init ==
    /\ folder \in Folders
    /\ max_frames \in {None, Some(0), Some(1)}
    /\ format \in {"json", "csv"}
    /\ decoders = [p \in DOMAIN folder |-> Plain(p, folder[p])]
    /\ batch = BatchSize
    /\ workers = Workers
    /\ checkpoint \in {0, Checkpoint}
    /\ run = 1
    /\ prior = None
    /\ ctl = "start"
    /\ \E st \in Starts(format, folder, max_frames) :
          /\ disk = st.disk
          /\ resume_from = st.resume_from
          /\ checkpoint_path = st.checkpoint_path
    /\ snaps = IF disk = None THEN {} ELSE {Unwrap(disk)}
    /\ Idle
    /\ pf = NoLoop
    /\ pp = NoPost
    /\ call = NoCall

(***************************************************************************)
(* main(): index the folder, reconcile with the checkpoint, start the      *)
(* detector workers and the exporters, and hand the work set to the pool   *)
(* of media workers.                                                       *)
(***************************************************************************)
Spawn(work, data) ==
    /\ file_paths' = work
    /\ export_data' = data
    /\ replayed' = data
    /\ media' = [f \in AllFiles |->
                    [pc |-> IF f \in work THEN "todo" ELSE "none", todo |-> <<>>]]
    /\ dpc' = [d \in Detectors |-> IF d <= workers THEN "run" ELSE "none"]
    /\ epc' = [e \in Exporters |-> "recv"]
    /\ ctl' = "media"

\* main.rs resume_from_checkpoint: the checks made before the records are read.
BadCheckpoint ==
    CASE checkpoint_path = "result" /\ disk = None -> "Checkpoint file does not exist"
      [] checkpoint_path = "dir" -> "Checkpoint path is not a file"
      [] checkpoint_path \in {"txt", "noext"} -> "Invalid checkpoint file extension"
      [] ~Parses(format, Unwrap(disk)) -> "parse"
      [] OTHER -> "ok"

\* A controller that starts the detector workers before it reads the checkpoint.
StartSpawnsFirst ==
    /\ ctl = "start"
    /\ IF checkpoint = 0
       THEN /\ ctl' = "quit"
            /\ UNCHANGED <<file_paths, export_data, replayed, media, dpc, epc>>
       ELSE IF resume_from
       THEN IF BadCheckpoint = "ok"
            THEN LET frs == ParseFile(format, Unwrap(disk))
                 IN  Spawn(resume_from_checkpoint(frs, AllFiles), frs)
            ELSE /\ ctl' = "failed"
                 /\ file_paths' = AllFiles
                 /\ dpc' = [d \in Detectors |-> IF d <= workers THEN "run" ELSE "none"]
                 /\ UNCHANGED <<export_data, replayed, media, epc>>
       ELSE Spawn(AllFiles, <<>>)
    /\ UNCHANGED <<args, run, resume_from, prior, chans, locks, frames, inferd, sent,
                   residual, held, fs>>

\* main.rs main: --checkpoint 0 returns Ok(()) at once; an error of
\* resume_from_checkpoint is returned from main with the indexed work set untouched.
Start ==
    /\ ctl = "start"
    /\ IF checkpoint = 0
       THEN /\ ctl' = "quit"
            /\ UNCHANGED <<file_paths, export_data, replayed, media, dpc, epc>>
       ELSE IF resume_from
       THEN IF BadCheckpoint = "ok"
            THEN LET frs == ParseFile(format, Unwrap(disk))
                 IN  Spawn(resume_from_checkpoint(frs, AllFiles), frs)
            ELSE /\ ctl' = "failed"
                 /\ file_paths' = AllFiles
                 /\ UNCHANGED <<export_data, replayed, media, dpc, epc>>
       ELSE Spawn(AllFiles, <<>>)
    /\ UNCHANGED <<args, run, resume_from, prior, chans, locks, frames, inferd, sent,
                   residual, held, fs>>

(***************************************************************************)
(* media.rs media_worker, one call per file of the work set.               *)
(***************************************************************************)
MediaStart(f) ==
    /\ ctl = "media"
    /\ media[f].pc = "todo"
    /\ LET out == media_worker(f, folder[f.file_path], max_frames)
       IN  media' = [media EXCEPT ![f] =
                        [pc |-> IF out = <<>> THEN "done" ELSE "send", todo |-> out]]
    /\ UNCHANGED <<args, runv, ctl, export_data, chans, locks, dets, exps, fs>>

MediaSend(f) ==
    /\ media[f].pc = "send"
    /\ Len(array_q) < Capacity
    /\ array_q' = Append(array_q, Head(media[f].todo))
    /\ media' = [media EXCEPT ![f] =
                    [pc |-> IF Tail(media[f].todo) = <<>> THEN "done" ELSE "send",
                     todo |-> Tail(media[f].todo)]]
    /\ UNCHANGED <<args, runv, ctl, export_data, array_q_s, export_q, export_q_s, locks,
                   dets, exps, fs>>

MediaDone == \A f \in AllFiles : media[f].pc \in {"none", "done"}

\* main.rs: drop(array_q_s) after the parallel iterator has returned.
DropArrayQ ==
    /\ ctl = "media"
    /\ MediaDone
    /\ array_q_s' = FALSE
    /\ ctl' = "join_detect"
    /\ UNCHANGED <<args, runv, export_data, array_q, export_q, export_q_s, locks, media,
                   dets, exps, fs>>

(***************************************************************************)
(* detect.rs process_frames.  One action is one receive and the test at    *)
(* the top of the loop that follows it.  Whether the deadline has passed   *)
(* at that test is up to the clock.                                        *)
(***************************************************************************)
\* Detector workers in the same local state are interchangeable: the one with the
\* lowest index takes the step.
FirstDetector(d) == \A o \in Detectors : o < d => <<dpc[o], frames[o]>> # <<dpc[d], frames[d]>>

Emit(d, pending, flush, errs, next) ==
    LET out == errs \o (IF flush THEN process_batch(pending) ELSE <<>>)
    IN  /\ frames' = [frames EXCEPT ![d] = IF flush THEN <<>> ELSE pending]
        /\ export_q' = export_q \o out
        /\ inferd' = inferd (+) (IF flush THEN SeqToBag(pending) ELSE EmptyBag)
        /\ sent' = sent (+) SeqToBag(out)
        /\ dpc' = [dpc EXCEPT ![d] = next]

DetRecv(d) ==
    /\ dpc[d] = "run" /\ FirstDetector(d)
    /\ array_q # <<>>
    /\ \E deadline \in BOOLEAN :
        LET item == Head(array_q)
            pending == IF item.kind = "Frame" THEN Append(frames[d], item) ELSE frames[d]
            errs == IF item.kind = "ErrFile" THEN <<ErrRecord(item)>> ELSE <<>>
        IN  Emit(d, pending, pending # <<>> /\ (Len(pending) >= batch \/ deadline), errs,
                 "run")
    /\ array_q' = Tail(array_q)
    /\ UNCHANGED residual
    /\ UNCHANGED <<args, runv, ctl, export_data, array_q_s, export_q_s, locks, media,
                   exps, fs>>

DetTimeout(d) ==
    /\ dpc[d] = "run" /\ FirstDetector(d)
    /\ array_q = <<>> /\ array_q_s
    /\ frames[d] # <<>>
    /\ Emit(d, frames[d], TRUE, <<>>, "run")
    /\ UNCHANGED residual
    /\ UNCHANGED <<args, runv, ctl, export_data, array_q, array_q_s, export_q_s, locks,
                   media, exps, fs>>

\* A worker that leaves the loop on Disconnected and does not flush.
DetDisconnectedNoFlush(d) ==
    /\ dpc[d] = "run" /\ FirstDetector(d)
    /\ array_q = <<>> /\ ~array_q_s
    /\ frames' = [frames EXCEPT ![d] = <<>>]
    /\ dpc' = [dpc EXCEPT ![d] = "done"]
    /\ residual' = Max(residual, Len(frames[d]))
    /\ UNCHANGED <<export_q, inferd, sent>>
    /\ UNCHANGED <<args, runv, ctl, export_data, array_q, array_q_s, export_q_s, locks,
                   media, exps, fs>>

DetDisconnected(d) ==
    /\ dpc[d] = "run" /\ FirstDetector(d)
    /\ array_q = <<>> /\ ~array_q_s
    /\ Emit(d, frames[d], frames[d] # <<>>, <<>>, "done")
    /\ residual' = Max(residual, Len(frames[d]))
    /\ UNCHANGED <<args, runv, ctl, export_data, array_q, array_q_s, export_q_s, locks,
                   media, exps, fs>>

DetectDone == \A d \in 1 .. workers : dpc[d] = "done"

\* A controller that closes the result channel and does not join the detector workers.
JoinDetectEarly ==
    /\ ctl = "join_detect"
    /\ export_q_s' = FALSE
    /\ ctl' = "join_export"
    /\ UNCHANGED <<args, runv, export_data, array_q, array_q_s, export_q, locks, media,
                   dets, exps, fs>>

\* main.rs: join the detector workers, then drop(export_q_s).
JoinDetect ==
    /\ ctl = "join_detect"
    /\ DetectDone
    /\ export_q_s' = FALSE
    /\ ctl' = "join_export"
    /\ UNCHANGED <<args, runv, export_data, array_q, array_q_s, export_q, locks, media,
                   dets, exps, fs>>


(***************************************************************************)
(* export.rs export_worker.  The guard of the counter mutex lives to the   *)
(* end of the match arm, so the counter mutex is held from the increment   *)
(* to the push; the guard of the buffer mutex taken for a checkpoint lives *)
(* to the end of the if block.  A checkpoint write is the open of the file *)
(* and then one step per token written.                                    *)
(***************************************************************************)
\* Exporters in the same local state are interchangeable: the one with the lowest
\* index takes the step.
FirstExporter(e) == \A o \in Exporters : o < e => <<epc[o], held[o]>> # <<epc[e], held[e]>>

ExpRecv(e) ==
    /\ epc[e] = "recv" /\ FirstExporter(e)
    /\ export_q # <<>>
    /\ held' = [held EXCEPT ![e] = Some(Head(export_q))]
    /\ export_q' = Tail(export_q)
    /\ epc' = [epc EXCEPT ![e] = "got"]
    /\ UNCHANGED <<args, runv, ctl, export_data, array_q, array_q_s, export_q_s, locks,
                   media, dets, fs>>

IsCheckpoint(counter) == counter % checkpoint = 0

\* a variant of ExpHandle that waits for neither mutex.
ExpHandleNoLock(e) ==
    /\ epc[e] = "got" /\ FirstExporter(e)
    /\ checkpoint_counter' = checkpoint_counter + 1
    /\ IF IsCheckpoint(checkpoint_counter + 1)
       THEN /\ counter_lock' = e
            /\ data_lock' = e
            /\ wr' = [who |-> e, snap |-> Serialise(format, export_data), pos |-> 0]
            /\ snaps' = snaps \cup {Serialise(format, export_data)}
            /\ disk' = OpenCreate(disk)
            /\ epc' = [epc EXCEPT ![e] = "write"]
            /\ UNCHANGED <<export_data, held>>
       ELSE /\ export_data' = Append(export_data, Unwrap(held[e]))
            /\ held' = [held EXCEPT ![e] = None]
            /\ epc' = [epc EXCEPT ![e] = "recv"]
            /\ UNCHANGED <<counter_lock, data_lock, fs>>
    /\ UNCHANGED <<args, runv, ctl, chans, media, dets>>

ExpHandle(e) ==
    /\ epc[e] = "got" /\ FirstExporter(e)
    /\ counter_lock = 0
    /\ checkpoint_counter' = checkpoint_counter + 1
    /\ IF IsCheckpoint(checkpoint_counter + 1)
       THEN /\ data_lock = 0
            /\ counter_lock' = e
            /\ data_lock' = e
            /\ wr' = [who |-> e, snap |-> Serialise(format, export_data), pos |-> 0]
            /\ snaps' = snaps \cup {Serialise(format, export_data)}
            /\ disk' = OpenCreate(disk)
            /\ epc' = [epc EXCEPT ![e] = "write"]
            /\ UNCHANGED <<export_data, held>>
       ELSE /\ export_data' = Append(export_data, Unwrap(held[e]))
            /\ held' = [held EXCEPT ![e] = None]
            /\ epc' = [epc EXCEPT ![e] = "recv"]
            /\ UNCHANGED <<counter_lock, data_lock, fs>>
    /\ UNCHANGED <<args, runv, ctl, chans, media, dets>>

\* file.write_all: the next token goes to the file at the write offset.
WriteToken ==
    /\ disk' = Some(Overwrite(Unwrap(disk), wr.pos, wr.snap[wr.pos + 1]))
    /\ wr' = [wr EXCEPT !.pos = @ + 1]
    /\ UNCHANGED snaps

ExpWrite(e) ==
    /\ epc[e] = "write"
    /\ wr.pos < Len(wr.snap)
    /\ WriteToken
    /\ UNCHANGED <<args, runv, ctl, export_data, chans, locks, media, dets, exps>>

\* a variant of ExpPush that unlocks the counter and keeps the buffer locked.
ExpPushKeepsBuffer(e) ==
    /\ epc[e] = "write"
    /\ wr.pos = Len(wr.snap)
    /\ wr' = NoWrite
    /\ export_data' = Append(export_data, Unwrap(held[e]))
    /\ held' = [held EXCEPT ![e] = None]
    /\ counter_lock' = 0
    /\ data_lock' = data_lock
    /\ epc' = [epc EXCEPT ![e] = "recv"]
    /\ UNCHANGED <<args, runv, ctl, chans, checkpoint_counter, media, dets, disk, snaps>>

\* the write has returned: unlock the buffer, push the record, unlock the counter.
ExpPush(e) ==
    /\ epc[e] = "write"
    /\ wr.pos = Len(wr.snap)
    /\ wr' = NoWrite
    /\ export_data' = Append(export_data, Unwrap(held[e]))
    /\ held' = [held EXCEPT ![e] = None]
    /\ counter_lock' = 0
    /\ data_lock' = 0
    /\ epc' = [epc EXCEPT ![e] = "recv"]
    /\ UNCHANGED <<args, runv, ctl, chans, checkpoint_counter, media, dets, disk, snaps>>

\* recv() fails once the channel is empty and every sender is gone.
ExpExit(e) ==
    /\ epc[e] = "recv" /\ FirstExporter(e)
    /\ export_q = <<>> /\ ~export_q_s /\ DetectDone
    /\ epc' = [epc EXCEPT ![e] = "done"]
    /\ UNCHANGED <<args, runv, ctl, export_data, chans, locks, media, dets, held, fs>>

ExportDone == \A e \in Exporters : epc[e] = "done"

\* main.rs: join the exporters, then export(): the final write of the buffer.
JoinExport ==
    /\ ctl = "join_export"
    /\ ExportDone
    /\ ctl' = "export"
    /\ wr' = [who |-> Main, snap |-> Serialise(format, export_data), pos |-> 0]
    /\ snaps' = snaps \cup {Serialise(format, export_data)}
    /\ disk' = OpenCreate(disk)
    /\ UNCHANGED <<args, runv, export_data, chans, locks, media, dets, exps>>

FinalWrite ==
    /\ ctl = "export"
    /\ wr.pos < Len(wr.snap)
    /\ WriteToken
    /\ UNCHANGED <<args, runv, ctl, export_data, chans, locks, media, dets, exps>>

Finish ==
    /\ ctl = "export"
    /\ wr.pos = Len(wr.snap)
    /\ wr' = NoWrite
    /\ ctl' = "done"
    /\ UNCHANGED <<args, runv, export_data, chans, locks, media, dets, exps, disk, snaps>>

(***************************************************************************)
(* The next run.  The process is killed (or has ended) and the program is  *)
(* started again over the same folder with --resume-from on the result     *)
(* file.  Nothing but the file survives.                                   *)
(***************************************************************************)
Running == ctl \in {"media", "join_detect", "join_export", "export"}

NextRun(complete) ==
    /\ run < MaxRuns
    /\ disk # None
    /\ run' = run + 1
    /\ resume_from' = TRUE
    /\ prior' = Some([complete |-> complete, artefact |-> Unwrap(disk)])
    /\ ctl' = "start"
    /\ Restarted
    /\ UNCHANGED <<args, disk, snaps>>

KillAndResume == Running /\ NextRun(FALSE)

RerunWithResume == ctl = "done" /\ NextRun(TRUE)

(***************************************************************************)
(* A fresh run over a folder whose files make the decoders report errors   *)
(* of every kind.                                                          *)
(***************************************************************************)
InitMedia ==
    /\ decoders \in {[p \in {ImgPath(FALSE), VidPath} |-> IF p = VidPath THEN v ELSE i] :
                        i \in ImageDecodings, v \in VideoDecodings}
    /\ folder = [p \in DOMAIN decoders |-> Outcome(p, decoders[p])]
    /\ max_frames \in {None, Some(1)}
    /\ format = "csv"
    /\ batch = BatchSize
    /\ workers = Workers
    /\ checkpoint = Checkpoint
    /\ checkpoint_path = "result"
    /\ run = 1
    /\ prior = None
    /\ ctl = "start"
    /\ disk = None
    /\ resume_from = FALSE
    /\ snaps = {}
    /\ Idle
    /\ pf = NoLoop
    /\ pp = NoPost
    /\ call = NoCall

(***************************************************************************)
(* A fresh run over two images and a video that all decode, with --batch   *)
(* and --workers of 1 or 2: more frames than the frames channel holds.     *)
(***************************************************************************)
InitFlow ==
    /\ folder = [p \in {ImgPath(FALSE), OtherImgPath, VidPath} |->
                    IF p = VidPath THEN MaxVideoFrames ELSE 1]
    /\ decoders = [p \in DOMAIN folder |-> Plain(p, folder[p])]
    /\ max_frames = None
    /\ format = "csv"
    /\ batch \in 1 .. BatchSize
    /\ workers \in 1 .. Workers
    /\ checkpoint = Checkpoint
    /\ checkpoint_path = "result"
    /\ run = 1
    /\ prior = None
    /\ ctl = "start"
    /\ disk = None
    /\ resume_from = FALSE
    /\ snaps = {}
    /\ Idle
    /\ pf = NoLoop
    /\ pp = NoPost
    /\ call = NoCall

(***************************************************************************)
(* Failures.  A detector worker panics when the model does not load or     *)
(* when inference fails (detect.rs: expect, unwrap); an exporter panics    *)
(* when the open or a write of a checkpoint fails (export.rs: unwrap) and  *)
(* so poisons the two mutexes it holds; main() calls process::exit(1) when *)
(* the join of a worker returns the panic.                                 *)
(***************************************************************************)
Poisoned == 0 - 1

\* process::exit(1): every thread ends where it is.
Exit1 ==
    /\ ctl' = "exit1"
    /\ dpc' = [d \in Detectors |-> IF dpc[d] = "run" THEN "killed" ELSE dpc[d]]
    /\ epc' = [e \in Exporters |->
                  IF epc[e] \in {"done", "panicked"} THEN epc[e] ELSE "killed"]

\* detect.rs detect_worker: load_model(..).expect(..), or an unwrap in process_batch.
DetFail(d) ==
    /\ dpc[d] = "run" /\ FirstDetector(d)
    /\ dpc' = [dpc EXCEPT ![d] = "panicked"]
    /\ frames' = [frames EXCEPT ![d] = <<>>]
    /\ UNCHANGED <<args, runv, ctl, export_data, chans, locks, media, inferd, sent,
                   residual, exps, fs>>

\* main.rs: the handles are joined in order; the first that returns Err ends the process.
JoinDetectFail ==
    /\ ctl = "join_detect"
    /\ \E d \in 1 .. workers :
          /\ dpc[d] = "panicked"
          /\ \A o \in 1 .. d - 1 : dpc[o] = "done"
    /\ Exit1
    /\ UNCHANGED <<args, runv, export_data, chans, locks, media, frames, inferd, sent,
                   residual, held, fs>>

\* export.rs export_worker: write_json(..).unwrap() / write_csv(..).unwrap() and the
\* unwraps inside them; the guards of both mutexes are dropped by the panic.
ExpWriteFail(e) ==
    /\ epc[e] = "write"
    /\ epc' = [epc EXCEPT ![e] = "panicked"]
    /\ counter_lock' = Poisoned
    /\ data_lock' = Poisoned
    /\ wr' = NoWrite
    /\ UNCHANGED <<args, runv, ctl, export_data, chans, checkpoint_counter, media, dets,
                   held, disk, snaps>>

\* export.rs export_worker: checkpoint_counter.lock().unwrap() on a poisoned mutex.
ExpPoisoned(e) ==
    /\ epc[e] = "got" /\ FirstExporter(e)
    /\ counter_lock = Poisoned
    /\ epc' = [epc EXCEPT ![e] = "panicked"]
    /\ UNCHANGED <<args, runv, ctl, export_data, chans, locks, media, dets, held, fs>>

JoinExportFail ==
    /\ ctl = "join_export"
    /\ \E e \in Exporters :
          /\ epc[e] = "panicked"
          /\ \A o \in 1 .. e - 1 : epc[o] = "done"
    /\ Exit1
    /\ UNCHANGED <<args, runv, export_data, chans, locks, media, frames, inferd, sent,
                   residual, held, fs>>

\* export.rs export: the unwraps inside write_json / write_csv panic in main.
FinalWriteFail ==
    /\ ctl = "export"
    /\ ctl' = "panicked"
    /\ wr' = NoWrite
    /\ UNCHANGED <<args, runv, export_data, chans, locks, media, dets, exps, disk, snaps>>

\* the steps of one run.
Step ==
    \/ Start
    \/ \E f \in AllFiles : MediaStart(f)
    \/ \E f \in AllFiles : MediaSend(f)
    \/ DropArrayQ
    \/ \E d \in Detectors : DetRecv(d)
    \/ \E d \in Detectors : DetTimeout(d)
    \/ \E d \in Detectors : DetDisconnected(d)
    \/ JoinDetect
    \/ \E e \in Exporters : ExpRecv(e)
    \/ \E e \in Exporters : ExpHandle(e)
    \/ \E e \in Exporters : ExpWrite(e)
    \/ \E e \in Exporters : ExpPush(e)
    \/ \E e \in Exporters : ExpExit(e)
    \/ JoinExport
    \/ FinalWrite
    \/ Finish

Next ==
    \/ Step
    \/ KillAndResume
    \/ RerunWithResume

\* the steps of one run in which workers and writes may fail.
StepFault ==
    \/ Step
    \/ \E d \in Detectors : DetFail(d)
    \/ JoinDetectFail
    \/ \E e \in Exporters : ExpWriteFail(e)
    \/ \E e \in Exporters : ExpPoisoned(e)
    \/ JoinExportFail
    \/ FinalWriteFail

\* a fresh run over more frames than the frames channel holds.
SpecFlow == InitFlow /\ [][Step]_vars

\* the same run with failing workers and failing writes.
SpecFault == InitFlow /\ [][StepFault]_vars

\* a fresh run over files that make the decoders fail.
SpecMedia == InitMedia /\ [][Step]_vars

\* a first run and the runs resumed from what it left on disk.
Spec == Init /\ [][Next]_vars

\* one run, never killed.
SpecRun == Init /\ [][Step]_vars

(***************************************************************************)
(* The batching loop under a clock: process_frames of one detector worker  *)
(* (detect.rs 97-166), with the instants the code reads.  The clock counts *)
(* ticks; timeout is Timeout ticks (config.timeout, 50 ms in main.rs).     *)
(* A step of the loop takes no time and any number of ticks may pass       *)
(* between two steps.  pf.frames holds, for each pending frame, the tick   *)
(* at which it was received.                                               *)
(*   pc: "top"  the test at the head of the loop                           *)
(*       "sub"  timeout - last_receive_time.elapsed()                      *)
(*       "wait" inside rx.recv_timeout                                     *)
(*   t_event, calls: history - the tick of the last receive or flush, and  *)
(*   one entry per call of process_batch.                                  *)
(***************************************************************************)
MaxTime == 5
Timeout == 2
MaxItems == 3

InitTimed ==
    /\ folder = [p \in {ImgPath(FALSE)} |-> 1]
    /\ decoders = [p \in DOMAIN folder |-> Plain(p, folder[p])]
    /\ max_frames = None
    /\ format = "csv"
    /\ batch \in 1 .. BatchSize + 1
    /\ workers = 1
    /\ checkpoint = Checkpoint
    /\ checkpoint_path = "result"
    /\ run = 1
    /\ prior = None
    /\ ctl = "start"
    /\ disk = None
    /\ resume_from = FALSE
    /\ snaps = {}
    /\ Idle
    /\ pf = [pc |-> "top", now |-> 0, last_receive_time |-> 0, deadline |-> 0,
             frames |-> <<>>, rx |-> <<>>, open |-> TRUE, left |-> MaxItems,
             t_event |-> 0, calls |-> <<>>]
    /\ pp = NoPost
    /\ call = NoCall

elapsed == pf.now - pf.last_receive_time

\* process_batch(&frames, ..); frames.clear(): the call as the history keeps it.
Call(why) ==
    [n |-> Len(pf.frames), why |-> why, idle |-> pf.now - pf.t_event,
     age |-> pf.now - Head(pf.frames)]
Flushed(why) ==
    IF pf.frames # <<>>
    THEN [pf EXCEPT !.frames = <<>>, !.calls = Append(@, Call(why)), !.t_event = pf.now]
    ELSE pf

\* detect.rs 106-114.
PfTop ==
    /\ pf.pc = "top"
    /\ pf' = IF Len(pf.frames) >= batch \/ elapsed >= Timeout
             THEN [Flushed(IF Len(pf.frames) >= batch THEN "full" ELSE "idle")
                       EXCEPT !.last_receive_time = pf.now, !.pc = "sub"]
             ELSE [pf EXCEPT !.pc = "sub"]

\* detect.rs 116: the subtraction of two Durations panics when it underflows.
PfSub ==
    /\ pf.pc = "sub"
    /\ pf' = IF elapsed > Timeout
             THEN [pf EXCEPT !.pc = "panicked"]
             ELSE [pf EXCEPT !.pc = "wait", !.deadline = pf.now + (Timeout - elapsed)]

\* a variant of PfRecvOk that leaves last_receive_time as it is.
PfRecvOkNoReset ==
    /\ pf.pc = "wait"
    /\ pf.rx # <<>>
    /\ pf' = [pf EXCEPT !.rx = Tail(@),
                        !.frames = IF Head(pf.rx) = "Frame" THEN Append(@, pf.now) ELSE @,
                        !.t_event = pf.now,
                        !.pc = "top"]

\* detect.rs 117-136: Ok(item).
PfRecvOk ==
    /\ pf.pc = "wait"
    /\ pf.rx # <<>>
    /\ pf' = [pf EXCEPT !.rx = Tail(@),
                        !.frames = IF Head(pf.rx) = "Frame" THEN Append(@, pf.now) ELSE @,
                        !.last_receive_time = pf.now,
                        !.t_event = pf.now,
                        !.pc = "top"]

\* detect.rs 137-148: Err(Timeout), the deadline has passed on an empty channel.
PfRecvTimeout ==
    /\ pf.pc = "wait"
    /\ pf.rx = <<>> /\ pf.open
    /\ pf.now >= pf.deadline
    /\ pf' = [Flushed("timeout") EXCEPT !.last_receive_time = pf.now, !.pc = "top"]

\* detect.rs 149-160: Err(Disconnected), the channel is empty and every sender is gone.
PfRecvDisconnected ==
    /\ pf.pc = "wait"
    /\ pf.rx = <<>> /\ ~pf.open
    /\ pf' = [Flushed("closed") EXCEPT !.pc = "done"]

\* a media worker sends an item into the frames channel.  A channel of capacity 0
\* (--batch 0) hands the item over to a receiver that is waiting in recv_timeout.
PfSend ==
    /\ pf.open /\ pf.left > 0
    /\ \/ Len(pf.rx) < Capacity
       \/ Capacity = 0 /\ pf.rx = <<>> /\ pf.pc = "wait"
    /\ \E kind \in {"Frame", "ErrFile"} :
          pf' = [pf EXCEPT !.rx = Append(@, kind), !.left = @ - 1]

\* the last sender of the frames channel is dropped.
PfDrop ==
    /\ pf.open
    /\ pf' = [pf EXCEPT !.open = FALSE]

Tick ==
    /\ pf.now < MaxTime
    /\ pf' = [pf EXCEPT !.now = @ + 1]

Pipeline ==
    <<folder, max_frames, format, batch, workers, checkpoint, checkpoint_path, decoders,
      runv, ctl, export_data, chans, locks, media, dets, exps, fs>>

StepTimed ==
    \/ PfTop /\ UNCHANGED <<Pipeline, pp, call>>
    \/ PfSub /\ UNCHANGED <<Pipeline, pp, call>>
    \/ PfRecvOk /\ UNCHANGED <<Pipeline, pp, call>>
    \/ PfRecvTimeout /\ UNCHANGED <<Pipeline, pp, call>>
    \/ PfRecvDisconnected /\ UNCHANGED <<Pipeline, pp, call>>
    \/ PfSend /\ UNCHANGED <<Pipeline, pp, call>>
    \/ PfDrop /\ UNCHANGED <<Pipeline, pp, call>>
    \/ Tick /\ UNCHANGED <<Pipeline, pp, call>>

\* one detector worker's loop, its channel and the clock.
SpecTimed == InitTimed /\ [][StepTimed]_vars

\* the same loop for every batch size the command line accepts: --batch is a usize
\* that main passes on as it is (main.rs 56-57, 174), 0 included.
InitBatch ==
    /\ folder = [p \in {ImgPath(FALSE)} |-> 1]
    /\ decoders = [p \in DOMAIN folder |-> Plain(p, folder[p])]
    /\ max_frames = None
    /\ format = "csv"
    /\ batch \in 0 .. BatchSize
    /\ workers = 1
    /\ checkpoint = Checkpoint
    /\ checkpoint_path = "result"
    /\ run = 1
    /\ prior = None
    /\ ctl = "start"
    /\ disk = None
    /\ resume_from = FALSE
    /\ snaps = {}
    /\ Idle
    /\ pf = [pc |-> "top", now |-> 0, last_receive_time |-> 0, deadline |-> 0,
             frames |-> <<>>, rx |-> <<>>, open |-> TRUE, left |-> MaxItems,
             t_event |-> 0, calls |-> <<>>]
    /\ pp = NoPost
    /\ call = NoCall

SpecBatch == InitBatch /\ [][StepTimed]_vars

(***************************************************************************)
(* Post-processing of one frame: the rows of the backend for the frame are *)
(* filtered by confidence, rescaled to source coordinates and clamped      *)
(* (process_batch, detect.rs 195-219), thinned by nms (utils.rs 38-80) and *)
(* labelled (get_label, detect.rs 244-259).  Coordinates, scores and the   *)
(* ratio are integers; an IoU and the IoU threshold are fractions          *)
(* <<numerator, denominator>> compared exactly.                            *)
(***************************************************************************)
MaxRows == 2
MaxBoxes == 3

Bbox(x1, y1, x2, y2, score, class) ==
    [x1 |-> x1, y1 |-> y1, x2 |-> x2, y2 |-> y2, score |-> score, class |-> class]

\* impl Bbox: area.
area(b) == (b.x2 - b.x1) * (b.y2 - b.y1)

iou(box1, box2) ==
    LET x1 == Max(box1.x1, box2.x1)
        y1 == Max(box1.y1, box2.y1)
        x2 == Min(box1.x2, box2.x2)
        y2 == Min(box1.y2, box2.y2)
        intersection_area == Max(x2 - x1, 0) * Max(y2 - y1, 0)
        union_area == area(box1) + area(box2) - intersection_area
    IN  IF union_area = 0 THEN <<0, 1>> ELSE <<intersection_area, union_area>>

\* q <= t, q < t on fractions with denominators of either sign.
FracLe(q, t) == (q[1] * t[2] - t[1] * q[2]) * (q[2] * t[2]) <= 0
FracLt(q, t) == (q[1] * t[2] - t[1] * q[2]) * (q[2] * t[2]) < 0

\* boxes.sort_by(|a, b| b.score.partial_cmp(&a.score)): stable, descending.
RECURSIVE SortedInsert(_, _)
SortedInsert(sorted, b) ==
    IF sorted = <<>> THEN <<b>>
    ELSE IF Head(sorted).score >= b.score
         THEN <<Head(sorted)>> \o SortedInsert(Tail(sorted), b)
         ELSE <<b>> \o sorted
RECURSIVE sort_by_score(_)
sort_by_score(boxes) ==
    IF boxes = <<>> THEN <<>>
    ELSE SortedInsert(sort_by_score(SubSeq(boxes, 1, Len(boxes) - 1)), boxes[Len(boxes)])

\* a variant of retain that keeps a box whose IoU equals the threshold.
retain_le(boxes, best_box, iou_threshold) ==
    SelectSeq(boxes, LAMBDA b : FracLe(iou(best_box, b), iou_threshold))

\* boxes.retain(|b| iou(&best_box, b) < iou_threshold)
retain(boxes, best_box, iou_threshold) ==
    SelectSeq(boxes, LAMBDA b : FracLt(iou(best_box, b), iou_threshold))

\* utils.rs 46-55: the agnostic loop.
RECURSIVE agnostic_nms(_, _, _, _)
agnostic_nms(boxes, result, topk, iou_threshold) ==
    IF boxes = <<>> THEN result
    ELSE LET best_box == Head(boxes)
             pushed == Append(result, best_box)
         IN  IF Len(pushed) >= topk THEN pushed
             ELSE agnostic_nms(retain(Tail(boxes), best_box, iou_threshold),
                               pushed, topk, iou_threshold)

\* utils.rs 66-76: the loop over the boxes of one class.
RECURSIVE class_nms(_, _, _, _)
class_nms(class_boxes, result, topk, iou_threshold) ==
    IF class_boxes = <<>> THEN result
    ELSE LET best_box == Head(class_boxes)
             pushed == Append(result, best_box)
         IN  IF Count(pushed, LAMBDA b : b.class = best_box.class) >= topk THEN pushed
             ELSE class_nms(retain(Tail(class_boxes), best_box, iou_threshold),
                            pushed, topk, iou_threshold)

\* utils.rs 58-65: for (_, class_boxes) in class_map, in the order the HashMap yields.
RECURSIVE per_class_nms(_, _, _, _, _)
per_class_nms(order, boxes, result, topk, iou_threshold) ==
    IF order = <<>> THEN result
    ELSE per_class_nms(Tail(order), boxes,
                       class_nms(SelectSeq(boxes, LAMBDA b : b.class = Head(order)),
                                 result, topk, iou_threshold),
                       topk, iou_threshold)

\* the orders in which a HashMap may yield the classes of the boxes.
ClassOrders(boxes) ==
    LET classes == {boxes[i].class : i \in 1 .. Len(boxes)}
    IN  {o \in [1 .. Cardinality(classes) -> classes] :
            \A i, j \in DOMAIN o : i # j => o[i] # o[j]}

nms(boxes, agnostic, topk, iou_threshold, order) ==
    IF agnostic
    THEN agnostic_nms(sort_by_score(boxes), <<>>, topk, iou_threshold)
    ELSE per_class_nms(order, sort_by_score(boxes), <<>>, topk, iou_threshold)

\* a variant of min_class that stops at the first box.
first_class(class_id, bboxes) == class_id

\* detect.rs 244-259.
RECURSIVE min_class(_, _)
min_class(class_id, bboxes) ==
    IF bboxes = <<>> THEN class_id
    ELSE min_class(Min(class_id, Head(bboxes).class), Tail(bboxes))

get_label(bboxes) ==
    IF bboxes = <<>> THEN "Blank"
    ELSE LET class_id == min_class(bboxes[1].class, bboxes)
         IN  CASE class_id = 0 -> "Animal"
               [] class_id = 1 -> "Person"
               [] class_id = 2 -> "Vehicle"
               [] OTHER -> "Blank"

\* detect.rs 195-219: x.max(0.0).min(width), and the box of a row.
clamp(v, limit) == Min(Max(v, 0), limit)
BoxOfRow(row, frame) ==
    Bbox(clamp(row.x1 * frame.ratio - frame.padding[1], frame.width),
         clamp(row.y1 * frame.ratio - frame.padding[2], frame.height),
         clamp(row.x2 * frame.ratio - frame.padding[1], frame.width),
         clamp(row.y2 * frame.ratio - frame.padding[2], frame.height),
         row.prob, row.class)
RECURSIVE BoxesOfRows(_, _, _)
BoxesOfRows(rows, frame, conf_thres) ==
    IF rows = <<>> THEN <<>>
    ELSE IF Head(rows).prob < conf_thres
         THEN BoxesOfRows(Tail(rows), frame, conf_thres)
         ELSE <<BoxOfRow(Head(rows), frame)>> \o BoxesOfRows(Tail(rows), frame, conf_thres)

SeqsUpTo(S, n) == UNION {[1 .. k -> S] : k \in 0 .. n}

\* what the chain starts from: rows in model coordinates (corners in either order,
\* inside and outside the letterbox), confidences on both sides of --conf, classes
\* with and without a label; frames of two shapes.
BackendRows ==
    {[x1 |-> xs[1], x2 |-> xs[2], y1 |-> ys[1], y2 |-> ys[2], prob |-> p, class |-> c] :
        xs \in {<<0, 1>>, <<1, 3>>, <<3, 1>>, <<0, 0>>},
        ys \in {<<0, 1>>, <<1, 0>>},
        p \in {1, 2}, c \in {0, 3}}
SourceFrames ==
    {[width |-> 4, height |-> 2, ratio |-> 2, padding |-> <<0, 1>>],
     [width |-> 2, height |-> 4, ratio |-> 2, padding |-> <<1, 0>>]}

\* what nms is tried on: boxes that overlap by 1/3, by 2/3 and not at all, and a
\* box without area; two scores, two classes; thresholds 1/3 and 1/2.
NmsBoxes ==
    {Bbox(xs[1], 0, xs[2], 1, s, c) :
        xs \in {<<0, 2>>, <<1, 3>>, <<0, 3>>, <<2, 2>>}, s \in {1, 2}, c \in {0, 1}}
IouThresholds == {<<1, 3>>, <<1, 2>>}
TopKs == {0, 2, 100}

\* what get_label is tried on: boxes of the classes 0 to 4.
LabelBoxes == {Bbox(0, 0, 1, 1, 1, c) : c \in 0 .. 4}

Quiet ==
    /\ folder = [p \in {ImgPath(FALSE)} |-> 1]
    /\ decoders = [p \in DOMAIN folder |-> Plain(p, folder[p])]
    /\ max_frames = None
    /\ format = "csv"
    /\ batch = BatchSize
    /\ workers = Workers
    /\ checkpoint = Checkpoint
    /\ checkpoint_path = "result"
    /\ run = 1
    /\ prior = None
    /\ ctl = "start"
    /\ disk = None
    /\ resume_from = FALSE
    /\ snaps = {}
    /\ Idle
    /\ pf = NoLoop

\* process_batch on the rows of one frame: nms(&mut boxes, true, 100, config.iou_thres).
InitPost ==
    /\ Quiet
    /\ call = NoCall
    /\ \E rows \in SeqsUpTo(BackendRows, MaxRows), frame \in SourceFrames :
          pp = [pc |-> "rows", rows |-> rows, frame |-> frame, conf_thres |-> 2,
                agnostic |-> TRUE, topk |-> 100, iou_thres |-> <<1, 2>>,
                boxes |-> <<>>, nms_boxes |-> <<>>, label |-> None]

\* nms on its own, in both modes.
InitNms ==
    /\ Quiet
    /\ call = NoCall
    /\ \E boxes \in SeqsUpTo(NmsBoxes, MaxBoxes), agnostic \in BOOLEAN,
          topk \in TopKs, iou_thres \in IouThresholds :
          pp = [pc |-> "boxes", rows |-> <<>>, frame |-> None, conf_thres |-> 2,
                agnostic |-> agnostic, topk |-> topk, iou_thres |-> iou_thres,
                boxes |-> boxes, nms_boxes |-> <<>>, label |-> None]

\* get_label on its own.
InitLabel ==
    /\ Quiet
    /\ call = NoCall
    /\ \E bboxes \in SeqsUpTo(LabelBoxes, MaxBoxes) :
          pp = [pc |-> "nms", rows |-> <<>>, frame |-> None, conf_thres |-> 2,
                agnostic |-> TRUE, topk |-> 100, iou_thres |-> <<1, 2>>,
                boxes |-> bboxes, nms_boxes |-> bboxes, label |-> None]

PpBoxes ==
    /\ pp.pc = "rows"
    /\ pp' = [pp EXCEPT !.pc = "boxes",
                        !.boxes = BoxesOfRows(pp.rows, pp.frame, pp.conf_thres)]
    /\ UNCHANGED <<Pipeline, pf, call>>

PpNms ==
    /\ pp.pc = "boxes"
    /\ \E order \in ClassOrders(pp.boxes) :
          pp' = [pp EXCEPT !.pc = "nms",
                           !.nms_boxes = nms(pp.boxes, pp.agnostic, pp.topk,
                                             pp.iou_thres, order)]
    /\ UNCHANGED <<Pipeline, pf, call>>

PpLabel ==
    /\ pp.pc = "nms"
    /\ pp' = [pp EXCEPT !.pc = "label", !.label = Some(get_label(pp.nms_boxes))]
    /\ UNCHANGED <<Pipeline, pf, call>>

StepPost == PpBoxes \/ PpNms \/ PpLabel

SpecPost == InitPost /\ [][StepPost]_vars
SpecNms == InitNms /\ [][PpNms]_vars
SpecLabel == InitLabel /\ [][PpLabel]_vars

(***************************************************************************)
(* The sampling of one video on its own: handle_ffmpeg_output (media.rs    *)
(* 269-328) on a video of which the transcoder emitted `emitted` frames,   *)
(* with --max-frames unset or set; the frames are sent one by one and a    *)
(* record is derived from each (process_batch, detect.rs 229-238).         *)
(***************************************************************************)
MaxEmitted == 4
MaxSample == 5

SampleFile == [folder_id |-> 0, file_id |-> 0, file_path |-> VidPath]

InitSample ==
    /\ Quiet
    /\ pp = NoPost
    /\ \E n \in 0 .. MaxEmitted, mf \in {None} \cup {Some(k) : k \in 0 .. MaxSample} :
          call = [op |-> "handle_ffmpeg_output", emitted |-> n, max_frames |-> mf,
                  sent |-> <<>>, records |-> <<>>]

\* what the call has to send.
SampleFrames == handle_ffmpeg_output(SampleFile, call.emitted, call.max_frames)

\* media.rs 300-316: s.send(frame_data) for the next sampled frame.
SampleSend ==
    /\ call.op = "handle_ffmpeg_output"
    /\ Len(call.sent) < Len(SampleFrames)
    /\ call' = [call EXCEPT !.sent = Append(@, SampleFrames[Len(call.sent) + 1])]
    /\ UNCHANGED <<Pipeline, pf, pp>>

\* detect.rs 229-238: the record of the next frame that was sent.
SampleRecord ==
    /\ call.op = "handle_ffmpeg_output"
    /\ Len(call.records) < Len(call.sent)
    /\ call' = [call EXCEPT !.records = Append(@, FrameRecord(call.sent[Len(call.records) + 1]))]
    /\ UNCHANGED <<Pipeline, pf, pp>>

StepSample == SampleSend \/ SampleRecord

SpecSample == InitSample /\ [][StepSample]_vars

(***************************************************************************)
(* The CSV round trip on its own: a buffer of records is written by        *)
(* write_csv (export.rs 91-139), the file is parsed by parse_export_csv    *)
(* (export.rs 24-50) and the parsed records are written again, as a        *)
(* resumed run does with the records of its checkpoint.                    *)
(***************************************************************************)
MaxRecords == 2

\* the records a detector worker makes: of a frame of an image or a video (with and
\* without a shooting time), and of a file that failed to decode.
SomeRecords ==
    LET img == [folder_id |-> 0, file_id |-> 0, file_path |-> ImgPath(FALSE)]
    IN  {FrameRecord(Frame(img, 0, 1)),
         [FrameRecord(Frame(img, 0, 1)) EXCEPT !.shoot_time = None],
         FrameRecord(Frame(SampleFile, 0, 2)),
         FrameRecord(Frame(SampleFile, 1, 2)),
         ErrRecord(ErrFile(img)),
         ErrRecord(ErrFile(SampleFile))}

InitCsv ==
    /\ Quiet
    /\ pp = NoPost
    /\ \E data \in SeqsUpTo(SomeRecords, MaxRecords) :
          call = [op |-> "csv", pc |-> "data", data |-> data, file |-> <<>>,
                  parsed |-> <<>>, again |-> <<>>]

CsvWrite ==
    /\ call.op = "csv" /\ call.pc = "data"
    /\ call' = [call EXCEPT !.pc = "written", !.file = write_csv(call.data)]
    /\ UNCHANGED <<Pipeline, pf, pp>>

CsvParse ==
    /\ call.op = "csv" /\ call.pc = "written"
    /\ CsvParses(call.file)
    /\ call' = [call EXCEPT !.pc = "parsed", !.parsed = parse_export_csv(call.file)]
    /\ UNCHANGED <<Pipeline, pf, pp>>

CsvWriteAgain ==
    /\ call.op = "csv" /\ call.pc = "parsed"
    /\ call' = [call EXCEPT !.pc = "rewritten", !.again = write_csv(call.parsed)]
    /\ UNCHANGED <<Pipeline, pf, pp>>

StepCsv == CsvWrite \/ CsvParse \/ CsvWriteAgain

SpecCsv == InitCsv /\ [][StepCsv]_vars

(***************************************************************************)
(* The reconciler on its own: resume_from_checkpoint (main.rs 326-347) on  *)
(* the records of a checkpoint and the work set of the new walk.  The new  *)
(* walk indexes a.jpg and v.mp4; the checkpoint holds records of a.jpg, of *)
(* v.mp4 with the ids of the new walk, and of v.mp4 with the file_id an    *)
(* earlier walk gave it when another file preceded it.                     *)
(***************************************************************************)
MaxCheckpointLen == 3

\* utils.rs 99-106: #[derive(PartialEq, Hash)] on FileItem compares every field.
FileItemEq(a, b) ==
    a.folder_id = b.folder_id /\ a.file_id = b.file_id /\ a.file_path = b.file_path

WalkImg == [folder_id |-> 0, file_id |-> 0, file_path |-> ImgPath(FALSE)]
WalkVid == [folder_id |-> 0, file_id |-> 1, file_path |-> VidPath]
EarlierVid == [folder_id |-> 0, file_id |-> 2, file_path |-> VidPath]

CheckpointRecords ==
    {FrameRecord(Frame(WalkImg, 0, 1)),
     FrameRecord(Frame(WalkVid, 0, 2)), FrameRecord(Frame(WalkVid, 1, 2)),
     FrameRecord(Frame(EarlierVid, 0, 2)), FrameRecord(Frame(EarlierVid, 1, 2))}

InitReconcile ==
    /\ Quiet
    /\ pp = NoPost
    /\ \E frs \in SeqsUpTo(CheckpointRecords, MaxCheckpointLen) :
          call = [op |-> "resume_from_checkpoint", pc |-> "parsed", frames |-> frs,
                  all_files |-> {WalkImg, WalkVid}, work |-> {}]

Reconcile ==
    /\ call.op = "resume_from_checkpoint" /\ call.pc = "parsed"
    /\ call' = [call EXCEPT !.pc = "reconciled",
                            !.work = resume_from_checkpoint(call.frames, call.all_files)]
    /\ UNCHANGED <<Pipeline, pf, pp>>

SpecReconcile == InitReconcile /\ [][Reconcile]_vars

(***************************************************************************)
(* The indexer on its own: index_files_and_folders (utils.rs 117-140) over *)
(* a directory tree.  call.tree is what the walk of the tree has come to   *)
(* so far, sorted by file name and depth first: entry 1 is the walk root,  *)
(* an entry of depth d + 1 lies in the nearest directory of depth d before *)
(* it.  An entry is a directory, a regular file, a symbolic link, or the   *)
(* error WalkDir yields in the place of what it cannot read.  An extension *)
(* is None, or a text, or "invalid" for one that is not valid Unicode.     *)
(* main resolves the folder first.                                         *)
(***************************************************************************)
MaxEntries == 3
MaxDepth == 2

Dirent(kind, stem, ext) == [kind |-> kind, stem |-> stem, ext |-> ext]

Dirents ==
    { Dirent("dir", "d", None), Dirent("dir", "Animal", None),
      Dirent("file", "f", Some("jpg")), Dirent("file", "f", Some("MP4")),
      Dirent("file", "f", Some("txt")), Dirent("file", "f", None),
      Dirent("file", "Blank", None), Dirent("file", "f", Some("invalid")),
      Dirent("symlink", "f", Some("jpg")), Dirent("err", "d", None) }

to_lowercase(s) == CASE s = "MP4" -> "mp4" [] s = "JPG" -> "jpg" [] OTHER -> s

\* what the walk may come to next: the root, then an entry at most one level below the
\* entry before it, and below it only when that is a directory.
NextDirents(t) ==
    IF t = <<>>
    THEN { [depth |-> 0] @@ e : e \in {x \in Dirents : x.kind = "dir"} }
    ELSE { [depth |-> d] @@ e : d \in 1 .. Min(MaxDepth, t[Len(t)].depth + 1), e \in Dirents }
         \ { x \in { [depth |-> d] @@ e : d \in 1 .. MaxDepth, e \in Dirents } :
                x.depth = t[Len(t)].depth + 1 /\ t[Len(t)].kind # "dir" }

\* utils.rs is_label: the file name is one of the four label folders.
is_label(entry) == entry.ext = None /\ entry.stem \in {"Animal", "Person", "Vehicle", "Blank"}

\* utils.rs is_video_photo on an entry: None stands for the panic of to_str().unwrap().
is_video_photo_entry(entry) ==
    IF entry.ext = None THEN Some(FALSE)
    ELSE IF Unwrap(entry.ext) = "invalid" THEN None
    ELSE Some(is_video_photo([ext |-> to_lowercase(Unwrap(entry.ext))]))

InitIndex ==
    /\ Quiet
    /\ pp = NoPost
    /\ \E r \in BOOLEAN :
          call = [op |-> "index_files_and_folders", resolves |-> r, tree |-> <<>>,
                  pc |-> "canonicalize", pruned |-> None,
                  folder_id |-> 0, file_id |-> 0, file_paths |-> {}]

\* main.rs 134-143: canonicalize(folder).expect(..), then the indexer is called.
IndexCanonicalize ==
    /\ call.op = "index_files_and_folders" /\ call.pc = "canonicalize"
    /\ call' = [call EXCEPT !.pc = IF call.resolves THEN "walk" ELSE "fatal"]
    /\ UNCHANGED <<Pipeline, pf, pp>>

\* utils.rs 123-137: the walk comes to its next entry.  What lies below a directory
\* that filter_entry has rejected is passed over (skip_current_dir, call.pruned holds
\* the depth of that directory); any other entry is one turn of the for loop.
IndexEntry ==
    /\ call.op = "index_files_and_folders" /\ call.pc = "walk"
    /\ Len(call.tree) <= MaxEntries
    /\ \E entry \in NextDirents(call.tree) :
        LET i == Len(call.tree) + 1
            seen == [call EXCEPT !.tree = Append(@, entry)]
            turn == [seen EXCEPT !.pruned = None]
        IN  call' =
              IF call.pruned # None /\ entry.depth > Unwrap(call.pruned) THEN seen
              ELSE IF entry.kind = "err" THEN [turn EXCEPT !.pc = "panicked"]
              ELSE IF is_label(entry)
              THEN IF entry.kind = "dir" THEN [turn EXCEPT !.pruned = Some(entry.depth)]
                   ELSE turn
              ELSE IF entry.kind = "dir" THEN [turn EXCEPT !.folder_id = @ + 1]
              ELSE IF entry.kind = "file"
              THEN IF is_video_photo_entry(entry) = None
                   THEN [turn EXCEPT !.pc = "panicked"]
                   ELSE IF Unwrap(is_video_photo_entry(entry))
                   THEN [turn EXCEPT !.file_paths = @ \cup {[folder_id |-> call.folder_id,
                                                            file_id |-> call.file_id,
                                                            file_path |-> i]},
                                     !.file_id = @ + 1]
                   ELSE turn
              ELSE turn
    /\ UNCHANGED <<Pipeline, pf, pp>>

\* utils.rs 139: the walk is over, file_paths is returned.
IndexReturn ==
    /\ call.op = "index_files_and_folders" /\ call.pc = "walk"
    /\ call.tree # <<>>
    /\ call' = [call EXCEPT !.pc = "done"]
    /\ UNCHANGED <<Pipeline, pf, pp>>

StepIndex == IndexCanonicalize \/ IndexEntry \/ IndexReturn

SpecIndex == InitIndex /\ [][StepIndex]_vars


(***************************************************************************)
(* The letterbox of one frame on its own.  An image goes through           *)
(* resize_with_pad (media.rs 149-191) and process_image stores what it     *)
(* returns (122-134); a video is scaled and padded by the transcoder       *)
(* (scale=..:force_original_aspect_ratio=decrease,pad=..:(ow-iw)/2:        *)
(* (oh-ih)/2) and handle_ffmpeg_output computes padding and ratio from the *)
(* source size (287-296).  The backend then reports a point of the frame   *)
(* in model coordinates and process_batch rescales it (detect.rs 202-209). *)
(* The sizes are such that ratio = max(width, height) / imgsz is a whole   *)
(* number, so the f32 arithmetic of the code is exact.                     *)
(***************************************************************************)
ImgSz == 8
MaxRatio == 2

\* media.rs 155-168: the resized size; the short side is rounded up to even.
resized_side(side, ratio) == LET r == side \div ratio IN (r % 2) + r

\* media.rs 149-191: the resized size, where the image is laid on the canvas, and the
\* tuple that is returned: (padded_array, pad_width, pad_width, ratio).
resize_with_pad(width, height, imgsz) ==
    LET ratio == Max(width, height) \div imgsz
        resized_width == IF width > height THEN imgsz ELSE resized_side(width, ratio)
        resized_height == IF width > height THEN resized_side(height, ratio) ELSE imgsz
        pad_width == (imgsz - resized_width) \div 2
        pad_height == (imgsz - resized_height) \div 2
    IN  [resized_width |-> resized_width, resized_height |-> resized_height,
         at |-> <<pad_width, pad_height>>,
         ret |-> <<pad_width, pad_width, ratio>>]

\* media.rs 122-134: the geometry of the Frame of an image.
ImageFrame(width, height, imgsz) ==
    LET r == resize_with_pad(width, height, imgsz)
    IN  [width |-> width, height |-> height, padding |-> <<r.ret[1], r.ret[2]>>,
         ratio |-> r.ret[3]]

\* media.rs 287-296: the geometry of the Frame of a video.
VideoFrame(width, height, imgsz) ==
    LET pad == (Max(width, height) - Min(width, height)) \div 2
    IN  [width |-> width, height |-> height,
         padding |-> IF width > height THEN <<0, pad>> ELSE <<pad, 0>>,
         ratio |-> Max(width, height) \div imgsz]

\* the transcoder's filter: the short side scaled down (rounded either way), the picture
\* centred on the canvas.
Transcoded(width, height, imgsz) ==
    LET ratio == Max(width, height) \div imgsz
        shorts == {Min(width, height) \div ratio,
                   Min(imgsz, (Min(width, height) + ratio - 1) \div ratio)}
    IN  { [resized_width |-> IF width > height THEN imgsz ELSE s,
           resized_height |-> IF width > height THEN s ELSE imgsz,
           at |-> IF width > height THEN <<0, (imgsz - s) \div 2>>
                                    ELSE <<(imgsz - s) \div 2, 0>>] : s \in shorts }

\* the source sizes: the long side a multiple of imgsz, the short side not below ratio.
SourceSizes ==
    { wh \in (1 .. MaxRatio * ImgSz) \X (1 .. MaxRatio * ImgSz) :
        /\ Max(wh[1], wh[2]) % ImgSz = 0
        /\ Min(wh[1], wh[2]) >= Max(wh[1], wh[2]) \div ImgSz }

InitLetterbox ==
    /\ Quiet
    /\ pp = NoPost
    /\ \E wh \in SourceSizes, kind \in {"image", "video"}, cx, cy \in {0, 1} :
          call = [op |-> "letterbox", kind |-> kind, width |-> wh[1], height |-> wh[2],
                  corner |-> <<cx, cy>>, pc |-> "decoded",
                  placed |-> None, frame |-> None, row |-> None, bbox |-> None]

\* the media worker: the picture is laid on the canvas and the Frame is built.
LbFrame ==
    /\ call.op = "letterbox" /\ call.pc = "decoded"
    /\ \E p \in IF call.kind = "image"
                THEN {resize_with_pad(call.width, call.height, ImgSz)}
                ELSE Transcoded(call.width, call.height, ImgSz) :
          call' = [call EXCEPT
                     !.pc = "framed",
                     !.placed = Some([resized_width |-> p.resized_width,
                                      resized_height |-> p.resized_height, at |-> p.at]),
                     !.frame = Some(IF call.kind = "image"
                                    THEN ImageFrame(call.width, call.height, ImgSz)
                                    ELSE VideoFrame(call.width, call.height, ImgSz))]
    /\ UNCHANGED <<Pipeline, pf, pp>>

\* the backend reports the top-left or bottom-right corner of the picture (a point of
\* the source divided by ratio, plus where the picture lies on the canvas).
LbDetect ==
    /\ call.op = "letterbox" /\ call.pc = "framed"
    /\ LET p == Unwrap(call.placed)
           x == p.at[1] + call.corner[1] * p.resized_width
           y == p.at[2] + call.corner[2] * p.resized_height
       IN  call' = [call EXCEPT !.pc = "detected",
                                !.row = Some([x1 |-> x, y1 |-> y, x2 |-> x, y2 |-> y,
                                              prob |-> 1, class |-> 0])]
    /\ UNCHANGED <<Pipeline, pf, pp>>

\* detect.rs 202-219: the row is rescaled to source coordinates.
LbRescale ==
    /\ call.op = "letterbox" /\ call.pc = "detected"
    /\ call' = [call EXCEPT !.pc = "rescaled",
                            !.bbox = Some(BoxOfRow(Unwrap(call.row), Unwrap(call.frame)))]
    /\ UNCHANGED <<Pipeline, pf, pp>>

StepLetterbox == LbFrame \/ LbDetect \/ LbRescale

SpecLetterbox == InitLetterbox /\ [][StepLetterbox]_vars


\* the runs of SpecFlow and those started with --workers 0, which the argument
\* parser accepts: no detector worker is spawned and the frames channel is bounded(0).
InitLive ==
    /\ folder = [p \in {ImgPath(FALSE), OtherImgPath, VidPath} |->
                    IF p = VidPath THEN MaxVideoFrames ELSE 1]
    /\ decoders = [p \in DOMAIN folder |-> Plain(p, folder[p])]
    /\ max_frames = None
    /\ format = "csv"
    /\ batch \in 1 .. BatchSize
    /\ workers \in 0 .. Workers
    /\ checkpoint = Checkpoint
    /\ checkpoint_path = "result"
    /\ run = 1
    /\ prior = None
    /\ ctl = "start"
    /\ disk = None
    /\ resume_from = FALSE
    /\ snaps = {}
    /\ Idle
    /\ pf = NoLoop
    /\ pp = NoPost
    /\ call = NoCall

\* every thread that can take a step takes one in the end: no step of a run leads
\* back to a state the run has been in, so weak fairness of Step is fairness of
\* the scheduler.
SpecLive == InitLive /\ [][Step]_vars /\ WF_vars(Step)


(***************************************************************************)
(* What the properties speak of.                                           *)
(***************************************************************************)
DiskContent == IF disk = None THEN <<>> ELSE Unwrap(disk)

\* the record lines of the result file.
Artefact == Lines(DiskContent)
LinesOf(f) == Count(Artefact, LAMBDA k : LineFile(k) = f)
ErrorLinesOf(f) == Count(Artefact, LAMBDA k : LineFile(k) = f /\ LineIsError(k))

Rows(fmt, data) == [i \in 1 .. Len(data) |-> RowOf(fmt, data[i])]

RECURSIVE RowBag(_, _)
RowBag(fmt, B) ==
    IF DOMAIN B = {} THEN EmptyBag
    ELSE LET x == CHOOSE y \in DOMAIN B : TRUE
         IN  [k \in {RowOf(fmt, x)} |-> B[x]]
                 (+) RowBag(fmt, [z \in DOMAIN B \ {x} |-> B[z]])

RECURSIVE RecordBag(_)
RecordBag(B) ==
    IF DOMAIN B = {} THEN EmptyBag
    ELSE LET x == CHOOSE y \in DOMAIN B : TRUE
         IN  [k \in {RecordOf(x)} |-> B[x]] (+) RecordBag([z \in DOMAIN B \ {x} |-> B[z]])

\* the items the media workers have sent into the frames channel so far.
RECURSIVE SentFrom(_)
SentFrom(id) ==
    IF id >= Cardinality(AllFiles) THEN EmptyBag
    ELSE LET f == CHOOSE x \in AllFiles : x.file_id = id
             out == media_worker(f, folder[f.file_path], max_frames)
             n == IF media[f].pc \in {"send", "done"} THEN Len(out) - Len(media[f].todo) ELSE 0
         IN  SeqToBag(SubSeq(out, 1, n)) (+) SentFrom(id + 1)

\* the items the detector workers have received, and the frames they hold.
Received == SentFrom(0) (-) SeqToBag(array_q)
RECURSIVE PendingFrom(_)
PendingFrom(d) == IF d > Workers THEN EmptyBag ELSE SeqToBag(frames[d]) (+) PendingFrom(d + 1)
Pending == PendingFrom(1)
OfKind(B, kind) == [x \in {y \in DOMAIN B : y.kind = kind} |-> B[x]]

\* the records the exporters have received in this run: those counted and those an
\* exporter holds while it waits for the counter mutex.
ReceivedByExporters == checkpoint_counter + Cardinality({e \in Exporters : epc[e] = "got"})

\* the records of this run that the file on disk holds.
Persisted ==
    IF disk = None \/ ~Parses(format, DiskContent) THEN 0
    ELSE Cardinality({i \in Len(replayed) + 1 .. Len(export_data) :
                        i <= Len(Artefact) /\ Artefact[i] = RowOf(format, export_data[i])})

\* the records this run has handled: counted and pushed.
Handled == Len(export_data) - Len(replayed)

(***************************************************************************)
(* C1.  Record completeness: when a run has ended, the result file holds,  *)
(* for every file of the work set, either exactly as many records as the   *)
(* media worker made frames of it and no error record, or exactly one      *)
(* record, an error record.  Stated as claimed; the code violates it.      *)
(***************************************************************************)
C1_RecordCompleteness ==
    ctl = "done" =>
        \A f \in file_paths :
            LET out == media_worker(f, folder[f.file_path], max_frames)
            IN  \/ /\ \A i \in 1 .. Len(out) : out[i].kind = "Frame"
                   /\ LinesOf(f) = Len(out)
                   /\ ErrorLinesOf(f) = 0
                \/ LinesOf(f) = 1 /\ ErrorLinesOf(f) = 1

(***************************************************************************)
(* C2.  Every file of the work set has at least one record in the result   *)
(* file when the run has ended.  Stated as claimed; the code violates it.  *)
(***************************************************************************)
C2_EveryFileHasRecord == ctl = "done" => \A f \in file_paths : LinesOf(f) >= 1

(***************************************************************************)
(* C3.  No frame is dropped at shutdown: a detector worker that has exited *)
(* holds no frame; every frame the workers received is either still held   *)
(* in a pending batch or was passed to inference exactly once; and the     *)
(* records sent are exactly one per inferred frame and one per error       *)
(* marker received.                                                        *)
(***************************************************************************)
C3_NoFrameDropped ==
    /\ \A d \in Detectors : dpc[d] = "done" => frames[d] = <<>>
    /\ OfKind(Received, "Frame") = inferd (+) Pending
    /\ sent = RecordBag(inferd (+) OfKind(Received, "ErrFile"))

\* every worker has exited, one of them after it flushed a residual batch when it
\* saw the channel closed, and all frames received have records.
C3_Witness ==
    /\ \A d \in Detectors : dpc[d] = "done"
    /\ residual >= 1
    /\ BagCardinality(sent) >= 2

(***************************************************************************)
(* C4.  Record conservation through the export stage: when a run has       *)
(* ended, every record parsed from the checkpoint and every record a       *)
(* detector worker sent is in the result file as often as it was parsed or *)
(* sent.  Stated as claimed; the code violates it.                         *)
(***************************************************************************)
C4_RecordConservation ==
    ctl = "done" =>
        LET want == SeqToBag(Rows(format, replayed)) (+) RowBag(format, sent)
            have == SeqToBag(Artefact)
        IN  \A k \in DOMAIN want : CopiesIn(k, have) = want[k]

(***************************************************************************)
(* C5.  Resume idempotence: a run resumed from the result file of a run    *)
(* that ended has nothing in its work set and ends with a result file that *)
(* holds the same records.  Stated as claimed; the code violates it.       *)
(***************************************************************************)
C5_ResumeIdempotence ==
    (ctl = "done" /\ prior # None /\ Unwrap(prior).complete) =>
        /\ file_paths = {}
        /\ SeqToBag(Artefact) = SeqToBag(Lines(Unwrap(prior).artefact))

(***************************************************************************)
(* C6.  Resume equivalence: a run resumed from the checkpoint of a run     *)
(* that was killed ends with a result file that holds the records of an    *)
(* uninterrupted run, each once.  Stated as claimed; the code violates it. *)
(***************************************************************************)
C6_ResumeEquivalence ==
    (ctl = "done" /\ prior # None /\ ~Unwrap(prior).complete) =>
        SeqToBag(Artefact) = SeqToBag(Rows(format, Uninterrupted(folder, max_frames)))

(***************************************************************************)
(* C7.  Crash-loss bound: at every point of a run, at most Checkpoint of   *)
(* the records the exporters have received are missing from the file on    *)
(* disk.  Stated as claimed; the code violates it.                         *)
(***************************************************************************)
C7_CrashLossBound == Running => ReceivedByExporters - Persisted <= Checkpoint

(***************************************************************************)
(* C8.  Atomic replacement: at every instant the result file is absent or  *)
(* is, whole, one of the serialised buffers that were handed to a write.   *)
(* Stated as claimed; the code violates it.                                *)
(***************************************************************************)
C8_AtomicReplacement == disk = None \/ DiskContent \in snaps

(***************************************************************************)
(* C9.  Checkpoint liveness: from the moment a run has handled Checkpoint  *)
(* records, the result file exists and parses, at every later point of the *)
(* run.  Stated as claimed; the code violates it.                          *)
(***************************************************************************)
C9_CheckpointLiveness ==
    ((Running \/ ctl = "done") /\ Handled >= Checkpoint) =>
        disk # None /\ Parses(format, DiskContent)

(***************************************************************************)
(* C10.  Strict shutdown order: the frames channel is closed only when     *)
(* every media worker has finished; the result channel is closed only when *)
(* every detector worker has exited; the final write starts only when      *)
(* every exporter has exited, nothing follows it, and it writes a buffer   *)
(* that holds every record replayed or sent in the run.                    *)
(***************************************************************************)
C10_ShutdownOrder ==
    /\ ~array_q_s => \A f \in AllFiles : media[f].pc \in {"none", "done"}
    /\ ~export_q_s => ~array_q_s /\ \A d \in Detectors : dpc[d] = "done"
    /\ (wr.who = Main \/ ctl = "done") =>
          /\ ~export_q_s
          /\ \A e \in Exporters : epc[e] = "done" /\ held[e] = None
          /\ export_q = <<>>
          /\ SeqToBag(export_data) = SeqToBag(replayed) (+) sent
    /\ wr.who = Main => wr.snap = Serialise(format, export_data)
    /\ ctl = "done" => wr = NoWrite

\* the run has ended and the file holds the buffer, which has two records or more.
C10_Witness ==
    /\ ctl = "done"
    /\ Len(export_data) >= 2
    /\ DiskContent = Serialise(format, export_data)

\* the exit status of the process: main returns Ok(()) (0), returns an error (1) or
\* calls process::exit(1); none while it runs.
ExitCode ==
    CASE ctl \in {"done", "quit"} -> Some(0)
      [] ctl \in {"failed", "exit1"} -> Some(1)
      [] ctl = "panicked" -> Some(101)
      [] OTHER -> None

\* the frames made by media workers and not yet passed to inference: in the channel,
\* in a pending batch, or in the hands of a media worker blocked on its send.
Blocked(f) == media[f].pc = "send" /\ Len(array_q) >= Capacity
Undispatched ==
    Count(array_q, LAMBDA x : x.kind = "Frame")
    + BagCardinality(Pending)
    + Cardinality({f \in AllFiles : Blocked(f) /\ Head(media[f].todo).kind = "Frame"})

\* some detector worker, exporter or media worker has been started.
WorkersStarted ==
    \/ \E d \in Detectors : dpc[d] # "none"
    \/ \E e \in Exporters : epc[e] # "none"
    \/ \E f \in AllFiles : media[f].pc # "none"

(***************************************************************************)
(* C14.  Invalid configuration is fatal: a program started with            *)
(* --checkpoint 0 ends at startup, before a worker is started or a file is *)
(* written, with a non-zero exit status.  Stated as claimed; the code      *)
(* violates it.                                                            *)
(***************************************************************************)
C14_InvalidConfigFatal ==
    (checkpoint = 0 /\ ctl # "start") =>
        /\ ExitCode # None /\ Unwrap(ExitCode) # 0
        /\ ~WorkersStarted
        /\ wr = NoWrite /\ (disk = None \/ DiskContent \in snaps)

(***************************************************************************)
(* C17.  Bad checkpoint rejection: when --resume-from names a path that is *)
(* missing, is not a regular file, has an extension other than json or     *)
(* csv, or does not parse, the start of the run fails: main returns the    *)
(* error, the indexed work set and the result buffer are as they were, no  *)
(* detector worker, exporter or media worker is started and no file is     *)
(* touched.                                                                *)
(***************************************************************************)
C17_BadCheckpointRejected ==
    [][(ctl = "start" /\ ctl' # "start" /\ checkpoint # 0 /\ resume_from
            /\ BadCheckpoint # "ok") =>
        /\ ctl' = "failed"
        /\ file_paths' = AllFiles
        /\ export_data' = export_data /\ export_data' = <<>>
        /\ dpc' = dpc /\ epc' = epc /\ media' = media
        /\ ~WorkersStarted'
        /\ disk' = disk /\ wr' = NoWrite]_vars

\* a start has been refused because the result file does not parse, with files in the
\* work set.
C17_Witness ==
    /\ ctl = "failed"
    /\ BadCheckpoint = "parse"
    /\ file_paths # {}
    /\ ExitCode = Some(1)

\* the decoders report a failure that ends the file: for an image the open fails or
\* both decoders fail, for a video the transcoder reports an error off the whitelist.
HardFailure(f) ==
    LET d == decoders[f.file_path]
    IN  IF f.file_path.ext = "jpg" THEN d \in {<<"err", "err">>, <<"io">>}
        ELSE \E i \in 1 .. Len(d) : d[i] = "hard"

\* the number of frames the transcoder emits for a video.
FramesEmitted(f) == Count(decoders[f.file_path], LAMBDA e : e = "frame")

\* the records of a file in the result buffer.
RecordsOf(f) == SelectSeq(export_data, LAMBDA r : r.file = f)

C11_DetectorFailureFatal ==
    ((\E d \in Detectors : dpc[d] = "panicked") /\ ~ENABLED StepFault) =>
        (ExitCode # None /\ Unwrap(ExitCode) # 0)

(***************************************************************************)
(* C12.  Back-pressure bound: at no time are there more than C + W frames  *)
(* made by media workers and not yet passed to inference, C the capacity   *)
(* of the frames channel and W the number of detector workers.  Stated as  *)
(* claimed; the code violates it.                                          *)
(***************************************************************************)
C12_BackPressureBound == Undispatched <= Capacity + workers

(***************************************************************************)
(* C16.  Export I/O failure is not fatal: no exporter and no run ends      *)
(* because a checkpoint write failed, and the record in hand at the failed *)
(* write is appended to the buffer.  Stated as claimed; the code violates  *)
(* it.                                                                     *)
(***************************************************************************)
C16_ExportFailureNotFatal ==
    /\ \A e \in Exporters : epc[e] # "panicked"
    /\ ctl = "exit1" => \E d \in Detectors : dpc[d] = "panicked"

(***************************************************************************)
(* C13.  Deadline batching, flush only on idle: last_receive_time is reset *)
(* on every successful receive, so it is never older than the last receive *)
(* or flush, and a batch of fewer than --batch frames is passed to         *)
(* inference only when the channel is closed or when nothing was received  *)
(* or flushed for at least the timeout.                                    *)
(***************************************************************************)
C13_FlushOnlyOnIdle ==
    /\ pf.pc \in {"top", "sub", "wait"} => pf.last_receive_time >= pf.t_event
    /\ \A i \in 1 .. Len(pf.calls) :
          (pf.calls[i].n < batch /\ pf.calls[i].why # "closed") =>
              pf.calls[i].idle >= Timeout

\* two frames received less than the timeout apart were held together until the
\* channel fell idle, longer than the timeout after the first of them.
C13_Witness ==
    \E i \in 1 .. Len(pf.calls) :
        /\ pf.calls[i].n = 2 /\ batch = 3
        /\ pf.calls[i].why \in {"idle", "timeout"}
        /\ pf.calls[i].age > Timeout
        /\ pf.calls[i].idle >= Timeout

(***************************************************************************)
(* What the properties of post-processing speak of.                        *)
(***************************************************************************)
Survivors == pp.nms_boxes
ClassesOf(bboxes) == {bboxes[i].class : i \in 1 .. Len(bboxes)}
NmsDone == pp.pc \in {"nms", "label"}

(***************************************************************************)
(* C18.  NMS monotonicity: in the output of nms every pair of boxes        *)
(* (agnostic mode) and every pair of boxes of one class (class-specific    *)
(* mode) has an IoU strictly below the threshold.                          *)
(***************************************************************************)
C18_NmsPairsBelowThreshold ==
    NmsDone =>
        \A i, j \in 1 .. Len(Survivors) :
            (i # j /\ (pp.agnostic \/ Survivors[i].class = Survivors[j].class)) =>
                FracLt(iou(Survivors[i], Survivors[j]), pp.iou_thres)

\* class-specific nms dropped a box and kept two boxes of one class that overlap.
C18_Witness ==
    /\ NmsDone /\ ~pp.agnostic
    /\ Len(Survivors) < Len(pp.boxes)
    /\ \E i, j \in 1 .. Len(Survivors) :
          /\ i # j /\ Survivors[i].class = Survivors[j].class
          /\ FracLt(<<0, 1>>, iou(Survivors[i], Survivors[j]))

(***************************************************************************)
(* C19.  Label priority: the label of a frame is Animal iff a surviving    *)
(* box has class 0, else Person iff one has class 1, else Vehicle iff one  *)
(* has class 2, else Blank.                                                *)
(***************************************************************************)
C19_LabelPriority ==
    pp.pc = "label" =>
        pp.label = Some(IF 0 \in ClassesOf(Survivors) THEN "Animal"
                        ELSE IF 1 \in ClassesOf(Survivors) THEN "Person"
                        ELSE IF 2 \in ClassesOf(Survivors) THEN "Vehicle"
                        ELSE "Blank")

\* Person over Vehicle, the first box being of neither class.
C19_Witness ==
    /\ pp.pc = "label"
    /\ ClassesOf(Survivors) = {1, 2, 4}
    /\ Survivors[1].class = 4
    /\ pp.label = Some("Person")

(***************************************************************************)
(* C20.  Coordinate soundness: every box of an emitted record satisfies    *)
(* 0 <= x1 <= x2 <= W and 0 <= y1 <= y2 <= H, W and H the source           *)
(* dimensions of the frame.  Stated as claimed; the code violates it.      *)
(***************************************************************************)
C20_CoordinateSoundness ==
    (NmsDone /\ pp.frame # None) =>
        \A i \in 1 .. Len(Survivors) :
            /\ 0 <= Survivors[i].x1 /\ Survivors[i].x1 <= Survivors[i].x2
            /\ Survivors[i].x2 <= pp.frame.width
            /\ 0 <= Survivors[i].y1 /\ Survivors[i].y1 <= Survivors[i].y2
            /\ Survivors[i].y2 <= pp.frame.height

(***************************************************************************)
(* What the properties of sampling speak of.                               *)
(***************************************************************************)
Sampling == call.op = "handle_ffmpeg_output"
SampleAllSent == Sampling /\ Len(call.sent) = Len(SampleFrames)
SampledIndex(i) == call.sent[i].iframe_index

(***************************************************************************)
(* C21.  Sampling evenness: of a video with N emitted frames the sampled   *)
(* indices are floor(i*N/K), i in [0,K), K = min(max_frames, N); they are  *)
(* pairwise distinct, strictly ascending and below N; with max_frames      *)
(* unset all N frames are kept.  Stated as claimed; the code violates it.  *)
(***************************************************************************)
C21_SamplingEvenness ==
    Sampling =>
        LET N == call.emitted
            K == IF call.max_frames = None THEN N ELSE Min(Unwrap(call.max_frames), N)
        IN  /\ Len(call.sent) <= K
            /\ SampleAllSent => Len(call.sent) = K
            /\ \A i \in 1 .. Len(call.sent) :
                  /\ SampledIndex(i) = ((i - 1) * N) \div K
                  /\ SampledIndex(i) < N
                  /\ \A j \in 1 .. i - 1 : SampledIndex(j) < SampledIndex(i)

(***************************************************************************)
(* C28.  Frame index invariant: every Frame a media worker produces, and   *)
(* every record derived from it, has iframe_index < total_frames.  Stated  *)
(* as claimed; the code violates it.                                       *)
(***************************************************************************)
C28_FrameIndexBelowTotal ==
    Sampling =>
        /\ \A i \in 1 .. Len(call.sent) :
              call.sent[i].iframe_index < call.sent[i].total_frames
        /\ \A i \in 1 .. Len(call.records) :
              call.records[i].frame_index < call.records[i].total_frames

(***************************************************************************)
(* C22.  CSV round trip: parse_export_csv on a file written by write_csv   *)
(* returns one record per data row, in row order, each equal field for     *)
(* field to the record written - an absent shoot_time, label or error      *)
(* stays absent.  Stated as claimed; the code violates it.                 *)
(***************************************************************************)
C22_CsvRoundTrip ==
    (call.op = "csv" /\ call.pc \in {"parsed", "rewritten"}) =>
        /\ Len(call.parsed) = Len(call.data)
        /\ \A i \in 1 .. Len(call.data) : call.parsed[i] = call.data[i]

(***************************************************************************)
(* C23.  Idle flush (bounded response): a batch of fewer than --batch      *)
(* frames that a detector worker holds is flushed whole, in one inference  *)
(* call, once the timeout has elapsed since the last receive - the wait of *)
(* the worker ends no later than that, and the worker never stops while it *)
(* holds frames; when the channel is closed after the flush the worker     *)
(* exits without a further inference call, so no call is empty.  Stated as *)
(* claimed; the code violates it.                                          *)
(***************************************************************************)
C23_IdleFlush ==
    /\ (pf.pc = "wait" /\ pf.frames # <<>>) => pf.deadline <= pf.t_event + Timeout
    /\ pf.pc \in {"done", "panicked"} => pf.frames = <<>>
    /\ pf.pc \in {"top", "sub", "wait", "done", "panicked"} =>
           \A i \in 1 .. Len(pf.calls) : pf.calls[i].n >= 1

(***************************************************************************)
(* What the properties of the reconciler speak of.                         *)
(***************************************************************************)
Reconciled == call.op = "resume_from_checkpoint" /\ call.pc = "reconciled"
CheckpointFiles == {call.frames[i].file : i \in 1 .. Len(call.frames)}
\* the number of records of the whole checkpoint for a file, and the total_frames
\* of the first of them.
RecordCount(f) == Count(call.frames, LAMBDA r : r.file = f)
FirstTotal(f) ==
    LET i == CHOOSE k \in 1 .. Len(call.frames) :
                 /\ call.frames[k].file = f
                 /\ \A j \in 1 .. k - 1 : call.frames[j].file # f
    IN  call.frames[i].total_frames
Complete(f) == f \in CheckpointFiles /\ RecordCount(f) = FirstTotal(f)

(***************************************************************************)
(* C24.  Reconciler removal rule: after reconciliation an indexed file is  *)
(* absent from the work set iff it occurs in the checkpoint and the number *)
(* of its records in the whole checkpoint equals the total_frames of its   *)
(* first record; every other indexed file remains.  Stated as claimed; the *)
(* code violates it.                                                       *)
(***************************************************************************)
C24_RemovalRule ==
    Reconciled =>
        /\ call.work \subseteq call.all_files
        /\ \A f \in call.all_files : f \notin call.work <=> Complete(f)

(***************************************************************************)
(* C25.  FileItem identity is the path alone: two FileItems with the same  *)
(* file_path are equal whatever their ids, so a file that is complete in   *)
(* the checkpoint is removed from the work set whenever its path is that   *)
(* of an indexed file.  Stated as claimed; the code violates it.           *)
(***************************************************************************)
C25_IdentityIsPath ==
    Reconciled =>
        \A g \in CheckpointFiles : \A f \in call.all_files :
            f.file_path = g.file_path =>
                /\ FileItemEq(f, g)
                /\ Complete(g) => f \notin call.work

(***************************************************************************)
(* C26.  NMS output shape: the output of nms is a subset of its input, in  *)
(* descending score order, of at most topk boxes in agnostic mode and at   *)
(* most topk boxes of each class in class-specific mode, for every         *)
(* topk >= 0.  Stated as claimed; the code violates it.                    *)
(***************************************************************************)
C26_NmsOutputShape ==
    NmsDone =>
        /\ \A i \in 1 .. Len(Survivors) :
              Count(Survivors, LAMBDA b : b = Survivors[i])
                  <= Count(pp.boxes, LAMBDA b : b = Survivors[i])
        /\ \A i, j \in 1 .. Len(Survivors) :
              i < j => Survivors[i].score >= Survivors[j].score
        /\ IF pp.agnostic THEN Len(Survivors) <= pp.topk
           ELSE \A c \in ClassesOf(Survivors) :
                    Count(Survivors, LAMBDA b : b.class = c) <= pp.topk

(***************************************************************************)
(* C27.  Zero-area boxes do not survive NMS: a box with x1 = x2 or y1 = y2 *)
(* never appears in the output of nms.  Stated as claimed; the code        *)
(* violates it.                                                            *)
(***************************************************************************)
C27_NoZeroAreaSurvivor ==
    NmsDone =>
        \A i \in 1 .. Len(Survivors) :
            Survivors[i].x1 # Survivors[i].x2 /\ Survivors[i].y1 # Survivors[i].y2

(***************************************************************************)
(* What the properties of the exporters' locks speak of.                   *)
(***************************************************************************)
\* a step of an exporter that has a record in hand.
ExportStep == \E e \in Exporters : ExpHandle(e) \/ ExpWrite(e) \/ ExpPush(e)
Holds(e) == counter_lock = e \/ data_lock = e

C29_RecordShape ==
    \A r \in BagToSet(sent) :
        (r.bboxes # None) # (r.error # None)

(***************************************************************************)
(* C31.  Counter lock scope: the counter mutex is released before the      *)
(* checkpoint file is written and before the record is appended, so no     *)
(* exporter holds it while a checkpoint write is in progress and another   *)
(* exporter with a record in hand can increment the counter meanwhile.     *)
(* Stated as claimed; the code violates it.                                *)
(***************************************************************************)
Writing(e) == epc[e] = "write" /\ wr.who = e

C31_CounterLockScope ==
    \A e \in Exporters :
        Writing(e) =>
            /\ counter_lock = 0
            /\ \A o \in Exporters : epc[o] = "got" /\ FirstExporter(o) => ENABLED ExpHandle(o)

(***************************************************************************)
(* C32.  Indexer output: for every directory tree the indexer returns, and *)
(* the work set is exactly the regular files with a known lower-cased      *)
(* extension that do not lie under a directory named Animal, Person,       *)
(* Vehicle or Blank; file_ids are pairwise distinct and follow the sorted  *)
(* walk, so the triple (folder_id, file_id, file_path) is unique.          *)
(* Stated as claimed; the code violates it.                                *)
(***************************************************************************)
Indexing == call.op = "index_files_and_folders"

\* entry i lies under a directory of the walk (the root included) that satisfies P.
Ancestors(t, i) ==
    { j \in 1 .. i - 1 :
        /\ t[j].depth < t[i].depth
        /\ \A k \in j + 1 .. i : t[k].depth > t[j].depth }

KnownExtension(entry) ==
    /\ entry.ext # None
    /\ to_lowercase(Unwrap(entry.ext)) \in {"jpg", "jpeg", "png", "mp4", "avi", "mkv", "mov"}

Accepted(t) ==
    { i \in 1 .. Len(t) :
        /\ t[i].kind = "file" /\ KnownExtension(t[i])
        /\ \A j \in Ancestors(t, i) : ~is_label(t[j]) }

C32_IndexerOutput ==
    Indexing =>
        /\ call.pc # "panicked"
        /\ call.pc = "done" =>
              /\ {f.file_path : f \in call.file_paths} = Accepted(call.tree)
              /\ \A f, g \in call.file_paths :
                    /\ f.file_id = g.file_id => f = g
                    /\ f.file_path < g.file_path => f.file_id < g.file_id

(***************************************************************************)
(* C33.  Indexer error tolerance: an entry the walk cannot read is skipped *)
(* and the walk goes on, returning every other accepted file; only a       *)
(* folder that does not resolve is fatal.  Stated as claimed; the code     *)
(* violates it.                                                            *)
(***************************************************************************)
Unreadable(t) == {i \in 1 .. Len(t) : t[i].kind = "err"}

C33_IndexerErrorTolerance ==
    Indexing =>
        /\ call.pc = "fatal" <=> (~call.resolves /\ call.pc # "canonicalize")
        /\ call.pc = "panicked" => call.tree[Len(call.tree)].kind # "err"
        /\ (call.pc = "done" /\ Unreadable(call.tree) # {}) =>
               {f.file_path : f \in call.file_paths} = Accepted(call.tree)

(***************************************************************************)
(* C34.  Letterbox geometry of an image of size (W, H) on a canvas of side *)
(* S: the resized sides are floor(W / ratio) and floor(H / ratio) rounded  *)
(* up to even, with ratio = max(W, H) / S; the Frame holds                 *)
(* pad_x = (S - resized_w) / 2 and pad_y = (S - resized_h) / 2, so that    *)
(* 2 * pad + resized = S on each axis.  Stated as claimed; the code        *)
(* violates it.                                                            *)
(***************************************************************************)
Letterboxing == call.op = "letterbox"
Framed == Letterboxing /\ call.pc # "decoded"
EvenUp(n) == n + (n % 2)

C34_LetterboxGeometry ==
    (Framed /\ call.kind = "image") =>
        LET ratio == Max(call.width, call.height) \div ImgSz
            p == Unwrap(call.placed)
            padding == Unwrap(call.frame).padding
        IN  /\ p.resized_width = EvenUp(call.width \div ratio)
            /\ p.resized_height = EvenUp(call.height \div ratio)
            /\ padding[1] = (ImgSz - p.resized_width) \div 2
            /\ padding[2] = (ImgSz - p.resized_height) \div 2
            /\ 2 * padding[1] + p.resized_width = ImgSz
            /\ 2 * padding[2] + p.resized_height = ImgSz
            /\ p.at = padding

(***************************************************************************)
(* C35.  Exact inverse mapping: for every frame, image or video, a source  *)
(* point taken into model coordinates by the letterbox and back by the     *)
(* rescale x' = x * ratio - pad_x, y' = y * ratio - pad_y of the Frame is  *)
(* the source point again, up to rounding (one pixel of the canvas, that   *)
(* is ratio pixels of the source).  Stated as claimed; the code violates   *)
(* it.                                                                     *)
(***************************************************************************)
Abs(n) == IF n < 0 THEN 0 - n ELSE n

\* the source point whose image the backend reported: a corner of the picture.
SourcePoint == <<call.corner[1] * call.width, call.corner[2] * call.height>>

C35_InverseMapping ==
    (Letterboxing /\ call.pc = "rescaled") =>
        LET bbox == Unwrap(call.bbox)
            ratio == Unwrap(call.frame).ratio
        IN  /\ Abs(bbox.x1 - SourcePoint[1]) <= ratio
            /\ Abs(bbox.y1 - SourcePoint[2]) <= ratio

(***************************************************************************)
(* C36.  Batch size bound: every inference call of a detector worker       *)
(* receives at least 1 and at most B frames; the pending batch never holds *)
(* more than B frames and an empty batch is never passed to inference,     *)
(* whether the call is made on a full batch, on the timeout or on channel  *)
(* closure.  Stated as claimed; the code violates it.                      *)
(***************************************************************************)
C36_BatchSizeBound ==
    /\ Len(pf.frames) <= batch
    /\ \A i \in 1 .. Len(pf.calls) : pf.calls[i].n >= 1 /\ pf.calls[i].n <= batch

(***************************************************************************)
(* C37.  Non-negative wait: the timeout passed to the receive,             *)
(* T - (now - t_last), is never negative: the subtraction of the two       *)
(* durations does not underflow, whatever time passes between the test at  *)
(* the head of the loop and the subtraction.  Stated as claimed; the code  *)
(* violates it.                                                            *)
(***************************************************************************)
C37_NonNegativeWait ==
    /\ pf.pc = "sub" => Timeout - elapsed >= 0
    /\ pf.pc # "panicked"

(***************************************************************************)
(* C38.  Serialised checkpoint writes: one checkpoint write is made for    *)
(* every multiple of the checkpoint interval the counter has reached, by   *)
(* the one exporter that counted that record, and no two writes to the     *)
(* result file, by exporters or the final one by main, are in progress at  *)
(* the same time.                                                          *)
(***************************************************************************)
WriteInProgress == wr # NoWrite

\* the writes begun so far in this run: each is handed a longer buffer than the last.
WritesBegun == Cardinality(snaps)

C38_SerialisedWrites ==
    /\ \A e \in Exporters : epc[e] = "write" => WriteInProgress /\ wr.who = e
    /\ (WriteInProgress /\ wr.who \in Exporters) =>
           /\ epc[wr.who] = "write"
           /\ IsCheckpoint(checkpoint_counter)
    /\ (WriteInProgress /\ wr.who = Main) => ctl = "export" /\ ExportDone
    /\ ctl \in {"media", "join_detect", "join_export"} =>
           WritesBegun = checkpoint_counter \div checkpoint
    /\ ctl \in {"export", "done"} =>
           WritesBegun = (checkpoint_counter \div checkpoint) + 1

\* the second checkpoint of a run is being written over the first.
C38_Witness ==
    \E e \in Exporters :
        /\ wr.who = e /\ wr.pos > 0 /\ epc[e] = "write"
        /\ checkpoint_counter = 2 * checkpoint

(***************************************************************************)
(* C39.  No stale content: when a write of the result file, a checkpoint   *)
(* write or the final one, has put out its last byte, the file holds       *)
(* exactly the serialisation of the buffer that was handed to the write,   *)
(* also when a longer result file of an earlier run lay at that path; and  *)
(* the file of a finished run is the serialisation of the final buffer.    *)
(* Stated as claimed; the code violates it.                                *)
(***************************************************************************)
WriteComplete == wr # NoWrite /\ wr.pos = Len(wr.snap)

C39_NoStaleContent ==
    /\ WriteComplete => DiskContent = wr.snap
    /\ ctl = "done" => DiskContent = Serialise(format, export_data)

(***************************************************************************)
(* C40.  Pipeline termination: a run over a finite work set in which no    *)
(* worker fails comes to its end: every media worker has sent all it had   *)
(* to send, every detector worker and every exporter has left its loop,    *)
(* and the final write of the result file has been made.  Stated as        *)
(* claimed; the code violates it.                                          *)
(***************************************************************************)
Terminated ==
    /\ ctl = "done"
    /\ MediaDone /\ DetectDone /\ ExportDone
    /\ wr = NoWrite /\ DiskContent = Serialise(format, export_data)

C40_PipelineTermination == <>Terminated

====
